---- MODULE Spec2Model ----
(***************************************************************************)
(* A model of OctopuSV's correction engine (same-chromosome BND rewriting, *)
(* cross-chromosome mate discovery) and of the merge engine's emitter.     *)
(*                                                                         *)
(* Eight specifications share the module:                                    *)
(*   SpecCorr  SameChrSVTransformer.apply_transforms                       *)
(*   SpecMate  the pairing calls of cli/convert.py:correct                 *)
(*   SpecEmit  SVMerger.write_results, one record at a time                *)
(*   SpecSel   SVMerger.get_events_by_source / _exact_support / _support_range *)
(*   SpecExpr  SVMerger.evaluate_expression                                *)
(*   SpecBnd   should_merge_bnd                                            *)
(*   SpecClu   SVMerger.add_and_merge_event, BNDMerger.add_event, merge_events *)
(*   SpecFilt  QualityFilter.filter_event                                  *)
(* Each one leaves the other subsystems' variables at their idle values.   *)
(***************************************************************************)
EXTENDS Integers, Sequences, FiniteSets, TLC

VARIABLES
    pc,                     \* position in the pipeline of the running specification
    \* ---- same-chromosome correction (transformer/same_chr_sv.py) ----
    events,                 \* the list handed to apply_transforms
    events_to_process,      \* what the three passes leave, normalized in place
    converted_del_events,
    converted_dup_events,
    converted_inv_events,
    result,                 \* the list apply_transforms returns
    del_pairs,              \* history: the (event1, event2) behind each converted DEL
    dup_pairs,              \* history: the same for each converted DUP
    inv_pairs,              \* history: the same for each converted INV
    \* ---- cross-chromosome pairing (cli/convert.py: correct) ----
    diff_chr_bnd_events,    \* the cross-chromosome BND records of the input
    pos_tolerance,
    mate_bnd_pairs,         \* find_mate_bnd_events' result
    no_mate_events,         \* find_no_mate_events' result
    special_no_mate_diff_bnd_pairs,
    other_single_TRA,
    \* ---- emitter (merger/sv_merger.py: write_results, one record) ----
    all_input_files,        \* SVMerger.all_input_files, the input paths in order
    custom_names,           \* NameMapper.custom_names, <<>> for None
    mode,                   \* "caller" or "sample"
    merged_event,           \* the merged record (event) being written
    ordered_sources,
    display_sources,        \* the text written after SOURCES=
    info_field,
    reordered_samples,
    sample_part,            \* the text written after the FORMAT column
    \* ---- selection (merger/sv_merger.py: get_events_by_*) ----
    tra_events,             \* tra_merger.get_merged_events()
    bnd_events,             \* bnd_merger.get_merged_events()
    group_representatives,  \* the representatives of SVMerger.event_groups
    operation,              \* which selection runs, with its arguments below
    query_sources,
    exact_support,
    min_support,
    max_support,
    results,                \* the list the selection returns
    \* ---- expression evaluation (merger/sv_merger.py: evaluate_expression) ----
    expression,
    event_sources,
    expr_value,             \* what evaluate_expression returns, or that it raised
    \* ---- BND similarity (merger/bnd_merge_logic.py: should_merge_bnd) ----
    bnd_event1,
    bnd_event2,
    delta,
    merge_decision,           \* what should_merge_bnd(bnd_event1, bnd_event2, delta) returns, or that it raised
    \* ---- cluster store (merger/sv_merger.py, merger/bnd_merger.py) ----
    merged_events,          \* SVMerger.merged_events: per (sv_type, chromosome) the groups' first records
    event_groups,           \* SVMerger.event_groups: per (sv_type, chromosome) the list of groups
    bnd_store,              \* BNDMerger.bnd_events: per sorted chromosome pair the records added
    merged_event_groups,    \* what merge_events returned last: per chromosome pair the list of groups
    max_distance,           \* SVMerger.max_distance
    ingested,               \* history: how many records were handed to the store
    \* ---- quality filter (filter/quality_filter.py) ----
    quality_filter,         \* the thresholds of the QualityFilter
    stats,                  \* QualityFilter.stats
    filtered_event,         \* history: the event of the last filter_event call
    filter_passed,          \* what the last filter_event call returned
    filter_calls            \* history: the number of filter_event calls

corrVars == <<events, events_to_process, converted_del_events, converted_dup_events,
              converted_inv_events, result, del_pairs, dup_pairs, inv_pairs>>

mateVars == <<diff_chr_bnd_events, pos_tolerance, mate_bnd_pairs, no_mate_events,
              special_no_mate_diff_bnd_pairs, other_single_TRA>>

emitVars == <<all_input_files, custom_names, mode, merged_event, ordered_sources, display_sources,
              info_field, reordered_samples, sample_part>>

selVars == <<tra_events, bnd_events, group_representatives, operation, query_sources, exact_support,
             min_support, max_support, results>>

exprVars == <<expression, event_sources, expr_value>>

bndVars == <<bnd_event1, bnd_event2, delta, merge_decision>>

cluVars == <<merged_events, event_groups, bnd_store, merged_event_groups, max_distance, ingested>>

filtVars == <<quality_filter, stats, filtered_event, filter_passed, filter_calls>>

vars == <<pc, corrVars, mateVars, emitVars, selVars, exprVars, bndVars, cluVars, filtVars>>

(***************************************************************************)
(* Bounds of the model.                                                    *)
(***************************************************************************)
MaxEvents == 2

\* The longest list of records that can pair with each other (PairableBnd).
MaxPairableEvents == 4

MaxMateEvents == 3

MaxTolerance == 1
\* input files handed to the merge
MaxFiles == 3
\* sample records collected on one merged record
MaxSamples == 2
\* merged records held by the three stores together
MaxClusters == 3
\* the largest --min-support / --max-support tried
MaxSupportBound == 2
\* the largest bnd_delta tried
MaxDelta == 2

(***************************************************************************)
(* Generic helpers.                                                        *)
(***************************************************************************)
Min(a, b) == IF a < b THEN a ELSE b

Max(a, b) == IF a > b THEN a ELSE b

Abs(n) == IF n < 0 THEN -n ELSE n

SetMin(S) == CHOOSE x \in S : \A y \in S : x <= y

Range(s) == {s[i] : i \in 1..Len(s)}

SeqsUpTo(S, n) == UNION {[1..k -> S] : k \in 0..n}

RECURSIVE SelectIdx(_, _, _)
\* the subsequence of s at the indices of I, in order
SelectIdx(s, I, i) ==
    IF i > Len(s) THEN <<>>
    ELSE (IF i \in I THEN <<s[i]>> ELSE <<>>) \o SelectIdx(s, I, i + 1)

(***************************************************************************)
(* Records.  An event carries chrom, pos, id, ref, alt and its INFO keys.  *)
(* oid is the Python object identity (id(event)): two events of equal      *)
(* content are still two objects.  A numeric INFO value is tagged so that  *)
(* the missing value '.' and an integer can sit in the same key.           *)
(***************************************************************************)
Dot == [dot |-> TRUE, n |-> 0]

Num(n) == [dot |-> FALSE, n |-> n]

\* The ALT string of a breakend, by its parts: a sequence token before (pre) or
\* after the bracketed group, the bracket, and the chrom:pos between the brackets.
BndAlt(pre, br, chrom, pos) == [kind |-> "bnd", pre |-> pre, br |-> br, chrom |-> chrom, pos |-> pos]

\* A symbolic ALT such as <DEL>, or a string with no bracketed group ("bad").
SymAlt(s) == [kind |-> s, pre |-> FALSE, br |-> "", chrom |-> "", pos |-> 0]

Chroms == {"chr1", "chr2"}

Positions == {200, 500}

Brackets == {"[", "]"}

\* Event ids as character sequences: 7:1 and 7:2 share the base id 7, b7 has none.
Ids == {<<"7", ":", "1">>, <<"7", ":", "2">>, <<"b", "7">>}

Digits == {"0", "1", "2", "3", "4", "5", "6", "7", "8", "9"}

RawInfo == [SVTYPE |-> "BND", END |-> Dot, SVLEN |-> Dot, CHR2 |-> ".", SVMETHOD |-> "."]

\* A raw BND record as the VCF parser builds it.
BndEvent(id, chrom, pos, alt) ==
    [oid |-> 0, id |-> id, chrom |-> chrom, pos |-> pos, ref |-> "N", alt |-> alt, info |-> RawInfo]

\* The same-chromosome BND records the parser can hand over: the ALT parses and
\* names the record's own chromosome.
SameChrBnd == {BndEvent(i, c, p, BndAlt(pre, br, c, q)) :
                  i \in Ids, c \in Chroms, p \in Positions,
                  pre \in BOOLEAN, br \in Brackets, q \in Positions}

\* Give the k-th record of a list the identity k.
WithOids(s) == [k \in 1..Len(s) |-> [s[k] EXCEPT !.oid = k]]

\* The records of chr1 whose ALT names the other position, under an id with a
\* base id (7:1) or without one (b7): any two of them of matching patterns pair.
PairableBnd == {e \in SameChrBnd : /\ e.id \in {<<"7", ":", "1">>, <<"b", "7">>}
                                   /\ e.chrom = "chr1" /\ e.alt.pos # e.pos}

\* The lists handed to apply_transforms.  The code compares chromosome names for
\* equality only, so a list starting on chr2 behaves as its renaming starting on chr1.
\* Every short list of SameChrBnd, and the longer lists of PairableBnd, in which
\* more than one pair can be rewritten.
SameChrInputs ==
    {WithOids(s) : s \in {t \in SeqsUpTo(SameChrBnd, MaxEvents) :
                            Len(t) > 0 => t[1].chrom = "chr1"}
                        \cup {t \in SeqsUpTo(PairableBnd, MaxPairableEvents) : Len(t) > MaxEvents}}

(***************************************************************************)
(* converter/base.py: the BND parser and Event.is_BND.                     *)
(***************************************************************************)
is_BND(e) == e.info.SVTYPE = "BND"

get_bnd_pattern(alt) ==
    IF alt.kind # "bnd" THEN "UNKNOWN"
    ELSE IF alt.pre /\ alt.br = "[" THEN "t[p["
    ELSE IF ~alt.pre /\ alt.br = "]" THEN "]p]t"
    ELSE IF alt.pre /\ alt.br = "]" THEN "t]p]"
    ELSE "[p[t"

\* (chrom_alt, pos_alt), or ok = FALSE for Python's (None, None)
get_alt_chrom_pos(alt) ==
    IF alt.kind = "bnd" THEN [ok |-> TRUE, chrom |-> alt.chrom, pos |-> alt.pos]
    ELSE [ok |-> FALSE, chrom |-> "", pos |-> 0]

(***************************************************************************)
(* converter/bnd2del.py: BNDPairToDELConverter.                            *)
(***************************************************************************)
RECURSIVE FirstBaseIdMatch(_, _)
\* re.search(r'(\d+):', event_id): the leftmost start i of a run of digits that a
\* colon ends; the result is <<i, j>> with the colon at j, or <<>> for no match.
FirstBaseIdMatch(event_id, i) ==
    IF i > Len(event_id) THEN <<>>
    ELSE IF event_id[i] \notin Digits THEN FirstBaseIdMatch(event_id, i + 1)
    ELSE LET stops == {j \in i..Len(event_id) : event_id[j] \notin Digits}
             j == IF stops = {} THEN Len(event_id) + 1 ELSE SetMin(stops)
         IN  IF j <= Len(event_id) /\ event_id[j] = ":" THEN <<i, j>>
             ELSE FirstBaseIdMatch(event_id, i + 1)

_extract_base_id(event_id) ==
    LET m == FirstBaseIdMatch(event_id, 1)
    IN  IF m = <<>> THEN event_id ELSE SubSeq(event_id, m[1], m[2] - 1)

_create_del_event(base_event, start_pos, end_pos) ==
    [base_event EXCEPT !.oid = 0,          \* copy.deepcopy: a fresh object
                       !.pos = start_pos,
                       !.alt = SymAlt("<DEL>"),
                       !.info = [SVTYPE |-> "DEL", END |-> Num(end_pos),
                                 SVLEN |-> Num(Abs(end_pos - start_pos)),
                                 CHR2 |-> base_event.chrom, SVMETHOD |-> "octopusV"]]

\* They reference each other (the test shared by the three pair converters).
ReferenceEachOther(event1, event2) ==
    LET a1 == get_alt_chrom_pos(event1.alt)
        a2 == get_alt_chrom_pos(event2.alt)
    IN  /\ event1.chrom = a1.chrom /\ event2.chrom = a2.chrom
        /\ event1.pos = a2.pos /\ event2.pos = a1.pos

\* A variant of the DEL test that forgets the direction of the t[p[ member.
_check_and_convert_del_pair_any_direction(event1, event2) ==
    LET pattern1 == get_bnd_pattern(event1.alt)
        pattern2 == get_bnd_pattern(event2.alt)
        start_pos == Min(event1.pos, event2.pos)
        end_pos == Max(event1.pos, event2.pos)
        base_event == IF event1.pos < event2.pos THEN event1 ELSE event2
    IN  IF ~(is_BND(event1) /\ is_BND(event2)) THEN {}
        ELSE IF event1.chrom # event2.chrom THEN {}
        ELSE IF ~ReferenceEachOther(event1, event2) THEN {}
        ELSE IF \/ (pattern1 = "t[p[" /\ pattern2 = "]p]t")
                \/ (pattern1 = "]p]t" /\ pattern2 = "t[p[")
             THEN {_create_del_event(base_event, start_pos, end_pos)}
        ELSE {}

\* {} for None, {del_event} otherwise
_check_and_convert_del_pair(event1, event2) ==
    LET pattern1 == get_bnd_pattern(event1.alt)
        pattern2 == get_bnd_pattern(event2.alt)
        pos_alt1 == get_alt_chrom_pos(event1.alt).pos
        pos_alt2 == get_alt_chrom_pos(event2.alt).pos
        start_pos == Min(event1.pos, event2.pos)
        end_pos == Max(event1.pos, event2.pos)
        base_event == IF event1.pos < event2.pos THEN event1 ELSE event2
    IN  IF ~(is_BND(event1) /\ is_BND(event2)) THEN {}
        ELSE IF event1.chrom # event2.chrom THEN {}
        ELSE IF ~ReferenceEachOther(event1, event2) THEN {}
        ELSE IF pattern1 = "t[p[" /\ pattern2 = "]p]t"
             THEN (IF pos_alt1 > event1.pos
                   THEN {_create_del_event(base_event, start_pos, end_pos)} ELSE {})
        ELSE IF pattern1 = "]p]t" /\ pattern2 = "t[p["
             THEN (IF pos_alt2 > event2.pos
                   THEN {_create_del_event(base_event, start_pos, end_pos)} ELSE {})
        ELSE {}

RECURSIVE BaseIdOrder(_, _, _)
\* The keys of event_dict in insertion order: base ids by first occurrence.
BaseIdOrder(evs, i, seen) ==
    IF i > Len(evs) THEN <<>>
    ELSE LET b == _extract_base_id(evs[i].id)
         IN  IF b \in seen THEN BaseIdOrder(evs, i + 1, seen)
             ELSE <<b>> \o BaseIdOrder(evs, i + 1, seen \cup {b})

RECURSIVE DelGroups(_, _, _)
\* The second loop of find_and_convert_pairs, over the groups from the k-th on.
DelGroups(evs, keys, k) ==
    IF k > Len(keys) THEN [remaining |-> <<>>, converted |-> <<>>, pairs |-> <<>>]
    ELSE LET event_group == SelectIdx(evs, {i \in 1..Len(evs) : _extract_base_id(evs[i].id) = keys[k]}, 1)
             rest == DelGroups(evs, keys, k + 1)
             del_event == IF Len(event_group) = 2
                          THEN _check_and_convert_del_pair(event_group[1], event_group[2]) ELSE {}
         IN  IF del_event # {}
             THEN [rest EXCEPT !.converted = <<CHOOSE d \in del_event : TRUE>> \o @,
                               !.pairs = <<<<event_group[1], event_group[2]>>>> \o @]
             ELSE [rest EXCEPT !.remaining = event_group \o @]

DelFindAndConvertPairs(evs) == DelGroups(evs, BaseIdOrder(evs, 1, {}), 1)

(***************************************************************************)
(* converter/bnd2dup_pair.py: BNDPairToDUPConverter.                             *)
(***************************************************************************)
\* A variant that takes the higher position as the start.
_create_dup_event_swapped(base_event, start_pos, end_pos) ==
    [base_event EXCEPT !.oid = 0,
                       !.pos = end_pos,
                       !.alt = SymAlt("<DUP>"),
                       !.info = [SVTYPE |-> "DUP", END |-> Num(start_pos),
                                 SVLEN |-> Num(Abs(end_pos - start_pos)),
                                 CHR2 |-> base_event.chrom, SVMETHOD |-> "OctopuSV"]]

_create_dup_event(base_event, start_pos, end_pos) ==
    [base_event EXCEPT !.oid = 0,
                       !.pos = start_pos,
                       !.alt = SymAlt("<DUP>"),
                       !.info = [SVTYPE |-> "DUP", END |-> Num(end_pos),
                                 SVLEN |-> Num(Abs(end_pos - start_pos)),
                                 CHR2 |-> base_event.chrom, SVMETHOD |-> "OctopuSV"]]

_check_and_convert_dup_pair(event1, event2) ==
    LET pattern1 == get_bnd_pattern(event1.alt)
        pattern2 == get_bnd_pattern(event2.alt)
        pos_alt1 == get_alt_chrom_pos(event1.alt).pos
        pos_alt2 == get_alt_chrom_pos(event2.alt).pos
        start_pos == Min(event1.pos, event2.pos)
        end_pos == Max(event1.pos, event2.pos)
        base_event == IF event1.pos < event2.pos THEN event1 ELSE event2
    IN  IF ~(is_BND(event1) /\ is_BND(event2)) THEN {}
        ELSE IF event1.chrom # event2.chrom THEN {}
        ELSE IF ~ReferenceEachOther(event1, event2) THEN {}
        ELSE IF pattern1 = "t[p[" /\ pattern2 = "]p]t"
             THEN (IF pos_alt1 < event1.pos
                   THEN {_create_dup_event(base_event, start_pos, end_pos)} ELSE {})
        ELSE IF pattern1 = "]p]t" /\ pattern2 = "t[p["
             THEN (IF pos_alt2 < event2.pos
                   THEN {_create_dup_event(base_event, start_pos, end_pos)} ELSE {})
        ELSE {}

RECURSIVE DupScan(_, _, _)
\* The nested loop of find_and_convert_pairs from event1 = evs[i] on; processed
\* holds the indices of the events in processed_events.
DupScan(evs, i, processed) ==
    IF i > Len(evs) THEN [processed |-> processed, converted |-> <<>>, pairs |-> <<>>]
    ELSE IF i \in processed THEN DupScan(evs, i + 1, processed)
    ELSE LET hits == {j \in (i + 1)..Len(evs) :
                        j \notin processed /\ _check_and_convert_dup_pair(evs[i], evs[j]) # {}}
         IN  IF hits = {} THEN DupScan(evs, i + 1, processed)
             ELSE LET j == SetMin(hits)
                      rest == DupScan(evs, i + 1, processed \cup {i, j})
                  IN  [rest EXCEPT
                         !.converted = <<CHOOSE d \in _check_and_convert_dup_pair(evs[i], evs[j]) : TRUE>> \o @,
                         !.pairs = <<<<evs[i], evs[j]>>>> \o @]

\* A variant that hands every event on, the consumed ones included.
DupFindAndConvertPairs_keep_consumed(evs) ==
    LET r == DupScan(evs, 1, {})
    IN  [remaining |-> evs, converted |-> r.converted, pairs |-> r.pairs]

DupFindAndConvertPairs(evs) ==
    LET r == DupScan(evs, 1, {})
    IN  [remaining |-> SelectIdx(evs, (1..Len(evs)) \ r.processed, 1),
         converted |-> r.converted, pairs |-> r.pairs]

(***************************************************************************)
(* converter/bnd2inv_pair.py: BNDPairToINVConverter.                             *)
(***************************************************************************)
_create_inv_event(base_event, start_pos, end_pos) ==
    [base_event EXCEPT !.oid = 0,
                       !.pos = start_pos,
                       !.alt = SymAlt("<INV>"),
                       !.info = [SVTYPE |-> "INV", END |-> Num(end_pos),
                                 SVLEN |-> Num(Abs(end_pos - start_pos)),
                                 CHR2 |-> base_event.chrom, SVMETHOD |-> "OctopuSV"]]

\* A variant that takes the patterns the class docstring names (]p]t or [p[t).
_check_and_convert_inv_pair_docstring(event1, event2) ==
    LET pattern1 == get_bnd_pattern(event1.alt)
        pattern2 == get_bnd_pattern(event2.alt)
        start_pos == Min(event1.pos, event2.pos)
        end_pos == Max(event1.pos, event2.pos)
        base_event == IF event1.pos < event2.pos THEN event1 ELSE event2
    IN  IF ~(is_BND(event1) /\ is_BND(event2)) THEN {}
        ELSE IF event1.chrom # event2.chrom THEN {}
        ELSE IF ~ReferenceEachOther(event1, event2) THEN {}
        ELSE IF \/ (pattern1 = "]p]t" /\ pattern2 = "]p]t")
                \/ (pattern1 = "[p[t" /\ pattern2 = "[p[t")
             THEN {_create_inv_event(base_event, start_pos, end_pos)}
        ELSE {}

_check_and_convert_inv_pair(event1, event2) ==
    LET pattern1 == get_bnd_pattern(event1.alt)
        pattern2 == get_bnd_pattern(event2.alt)
        start_pos == Min(event1.pos, event2.pos)
        end_pos == Max(event1.pos, event2.pos)
        base_event == IF event1.pos < event2.pos THEN event1 ELSE event2
    IN  IF ~(is_BND(event1) /\ is_BND(event2)) THEN {}
        ELSE IF event1.chrom # event2.chrom THEN {}
        ELSE IF ~ReferenceEachOther(event1, event2) THEN {}
        ELSE IF \/ (pattern1 = "t]p]" /\ pattern2 = "t]p]")
                \/ (pattern1 = "[p[t" /\ pattern2 = "[p[t")
             THEN {_create_inv_event(base_event, start_pos, end_pos)}
        ELSE {}

RECURSIVE InvScan(_, _, _)
InvScan(evs, i, processed) ==
    IF i > Len(evs) THEN [processed |-> processed, converted |-> <<>>, pairs |-> <<>>]
    ELSE IF i \in processed THEN InvScan(evs, i + 1, processed)
    ELSE LET hits == {j \in (i + 1)..Len(evs) :
                        j \notin processed /\ _check_and_convert_inv_pair(evs[i], evs[j]) # {}}
         IN  IF hits = {} THEN InvScan(evs, i + 1, processed)
             ELSE LET j == SetMin(hits)
                      rest == InvScan(evs, i + 1, processed \cup {i, j})
                  IN  [rest EXCEPT
                         !.converted = <<CHOOSE d \in _check_and_convert_inv_pair(evs[i], evs[j]) : TRUE>> \o @,
                         !.pairs = <<<<evs[i], evs[j]>>>> \o @]

InvFindAndConvertPairs(evs) ==
    LET r == InvScan(evs, 1, {})
    IN  [remaining |-> SelectIdx(evs, (1..Len(evs)) \ r.processed, 1),
         converted |-> r.converted, pairs |-> r.pairs]

(***************************************************************************)
(* converter/bnd_keeping.py: BNDKeepingConverter.                          *)
(***************************************************************************)
\* A variant that forces the residual to TRA, as the converters for single
\* breakends do.
update_bnd_info_as_tra(event) ==
    LET a == get_alt_chrom_pos(event.alt)
    IN  [event EXCEPT !.info = [SVTYPE |-> "TRA", END |-> Num(a.pos), SVLEN |-> Dot,
                                CHR2 |-> a.chrom, SVMETHOD |-> "OctopuSV"]]

update_bnd_info(event) ==
    LET a == get_alt_chrom_pos(event.alt)
    IN  [event EXCEPT !.info =
            IF a.ok /\ a.chrom # "" /\ a.pos # 0       \* if chrom_alt and pos_alt
            THEN [SVTYPE |-> "BND", END |-> Num(a.pos), SVLEN |-> Dot,
                  CHR2 |-> a.chrom, SVMETHOD |-> "OctopuSV"]
            ELSE [SVTYPE |-> "BND", END |-> Dot, SVLEN |-> Dot,
                  CHR2 |-> ".", SVMETHOD |-> "OctopuSV"]]

BNDKeepingConvert(event) == IF is_BND(event) THEN update_bnd_info(event) ELSE event

(***************************************************************************)
(* transformer/same_chr_sv.py: SameChrSVTransformer.apply_transforms with  *)
(* the strategy list of cli/convert.py, [BNDKeepingConverter()].           *)
(***************************************************************************)
CorrIdle ==
    /\ events = <<>> /\ events_to_process = <<>>
    /\ converted_del_events = <<>> /\ converted_dup_events = <<>> /\ converted_inv_events = <<>>
    /\ result = <<>>
    /\ del_pairs = <<>> /\ dup_pairs = <<>> /\ inv_pairs = <<>>

MateIdle ==
    /\ diff_chr_bnd_events = <<>> /\ pos_tolerance = 0
    /\ mate_bnd_pairs = <<>> /\ no_mate_events = <<>>
    /\ special_no_mate_diff_bnd_pairs = <<>> /\ other_single_TRA = <<>>

\* None, and a value in a place that may hold None
None == [none |-> TRUE, v |-> 0]

Some(v) == [none |-> FALSE, v |-> v]

SelIdle ==
    /\ tra_events = <<>> /\ bnd_events = <<>> /\ group_representatives = <<>>
    /\ operation = "" /\ query_sources = <<>>
    /\ exact_support = None /\ min_support = None /\ max_support = None
    /\ results = <<>>

ExprIdle == expression = <<>> /\ event_sources = <<>> /\ expr_value = None

BndIdle == bnd_event1 = None /\ bnd_event2 = None /\ delta = 0 /\ merge_decision = None

CluIdle ==
    /\ merged_events = <<>> /\ event_groups = <<>> /\ bnd_store = <<>> /\ merged_event_groups = <<>>
    /\ max_distance = 0 /\ ingested = 0

FiltIdle ==
    /\ quality_filter = None /\ stats = None /\ filtered_event = None /\ filter_passed = None
    /\ filter_calls = 0

\* the emitter's variables other than all_input_files
EmitRecordIdle ==
    /\ custom_names = <<>> /\ mode = ""
    /\ merged_event = [source_file |-> <<>>, info |-> <<>>, merged_samples |-> <<>>, sample |-> <<>>, has_sample |-> FALSE]
    /\ ordered_sources = <<>> /\ display_sources = <<>> /\ info_field = <<>>
    /\ reordered_samples = <<>> /\ sample_part = <<>>

EmitIdle ==
    /\ all_input_files = <<>> /\ custom_names = <<>> /\ mode = ""
    /\ merged_event = [source_file |-> <<>>, info |-> <<>>, merged_samples |-> <<>>, sample |-> <<>>, has_sample |-> FALSE]
    /\ ordered_sources = <<>> /\ display_sources = <<>> /\ info_field = <<>>
    /\ reordered_samples = <<>> /\ sample_part = <<>>

CorrInit ==
    /\ pc = "start"
    /\ CluIdle /\ FiltIdle
    /\ MateIdle
    /\ EmitIdle
    /\ SelIdle /\ ExprIdle /\ BndIdle
    /\ events \in SameChrInputs
    /\ events_to_process = <<>>
    /\ converted_del_events = <<>> /\ converted_dup_events = <<>> /\ converted_inv_events = <<>>
    /\ result = <<>>
    /\ del_pairs = <<>> /\ dup_pairs = <<>> /\ inv_pairs = <<>>

\* One call of apply_transforms: the DEL, DUP and INV passes in that order, the
\* strategy loop over what is left, and the concatenation returned.
ApplyTransforms ==
    /\ pc = "start"
    /\ \E after_del \in {DelFindAndConvertPairs(events)} :
       \E after_dup \in {DupFindAndConvertPairs(after_del.remaining)} :
       \E after_inv \in {InvFindAndConvertPairs(after_dup.remaining)} :
       \E kept \in {[k \in 1..Len(after_inv.remaining) |-> BNDKeepingConvert(after_inv.remaining[k])]} :
           /\ events_to_process' = kept
           /\ converted_del_events' = after_del.converted
           /\ converted_dup_events' = after_dup.converted
           /\ converted_inv_events' = after_inv.converted
           /\ del_pairs' = after_del.pairs
           /\ dup_pairs' = after_dup.pairs
           /\ inv_pairs' = after_inv.pairs
           /\ result' = kept \o after_del.converted \o after_dup.converted \o after_inv.converted
    /\ pc' = "done"
    /\ UNCHANGED <<events, mateVars, emitVars, selVars, exprVars, bndVars, cluVars, filtVars>>

CorrNext == ApplyTransforms

SpecCorr == CorrInit /\ [][CorrNext]_vars

(***************************************************************************)
(* cli/convert.py: the pairing of cross-chromosome BND records.            *)
(* A Python dict is a sequence of entries in insertion order.              *)
(***************************************************************************)
\* Coordinates one to three apart, so that tolerances 0, 1 and 2 each separate them.
Coords == {1, 2, 4}

OtherChrom(c) == IF c = "chr1" THEN "chr2" ELSE "chr1"

\* The records of the cross-chromosome partition: the ALT names another
\* chromosome, or it holds no bracketed group and does not parse at all.
DiffChrBnd ==
    {BndEvent(<<"b">>, c, p, BndAlt(TRUE, "[", OtherChrom(c), q)) : c \in Chroms, p \in Coords, q \in Coords}
    \cup {BndEvent(<<"b">>, c, 1, SymAlt("bad")) : c \in Chroms}

\* As for SameChrInputs, chromosome names only matter up to renaming.
DiffChrInputs == {WithOids(s) : s \in {t \in SeqsUpTo(DiffChrBnd, MaxMateEvents) :
                                        Len(t) > 0 => t[1].chrom = "chr1"}}

\* index of key in dict d, 0 when absent (key in event_dict)
DictIndex(d, key) ==
    IF \E k \in 1..Len(d) : d[k].key = key
    THEN CHOOSE k \in 1..Len(d) : d[k].key = key
    ELSE 0

\* event_dict[key] = val
DictPut(d, key, val) ==
    IF DictIndex(d, key) = 0 THEN Append(d, [key |-> key, val |-> val])
    ELSE [d EXCEPT ![DictIndex(d, key)].val = val]

\* del event_dict[key], the rest of event_dict.pop(key)
DictRemove(d, k) == SubSeq(d, 1, k - 1) \o SubSeq(d, k + 1, Len(d))

\* the pairs (i, j) of range(-t, t + 1) x range(-t, t + 1), row by row
Offsets(t) ==
    [k \in 1..((2 * t + 1) * (2 * t + 1)) |->
        <<((k - 1) \div (2 * t + 1)) - t, ((k - 1) % (2 * t + 1)) - t>>]

ForwardKey(event) ==
    <<event.chrom, event.pos, get_alt_chrom_pos(event.alt).chrom, get_alt_chrom_pos(event.alt).pos>>

\* A variant that takes the exact reverse key only, whatever the tolerance.
ReverseKeys_exact(event, t) ==
    <<<<get_alt_chrom_pos(event.alt).chrom, get_alt_chrom_pos(event.alt).pos, event.chrom, event.pos>>>>

\* A variant whose window is one position wider than the tolerance.
ReverseKeys_wider(event, t) ==
    [k \in 1..Len(Offsets(t + 1)) |->
        <<get_alt_chrom_pos(event.alt).chrom, get_alt_chrom_pos(event.alt).pos + Offsets(t + 1)[k][1],
          event.chrom, event.pos + Offsets(t + 1)[k][2]>>]

\* possible_reverse_keys of find_mate_bnd_events and find_no_mate_events
ReverseKeys(event, t) ==
    [k \in 1..Len(Offsets(t)) |->
        <<get_alt_chrom_pos(event.alt).chrom, get_alt_chrom_pos(event.alt).pos + Offsets(t)[k][1],
          event.chrom, event.pos + Offsets(t)[k][2]>>]

\* A variant that moves the source position only, never the target position.
SameDirectionKeys_source_only(event, t) ==
    [k \in 1..Len(Offsets(t)) |->
        <<event.chrom, event.pos + Offsets(t)[k][1],
          get_alt_chrom_pos(event.alt).chrom, get_alt_chrom_pos(event.alt).pos>>]

\* possible_reverse_keys of find_special_no_mate_diff_bnd_pair_and_other_single_tra
SameDirectionKeys(event, t) ==
    [k \in 1..Len(Offsets(t)) |->
        <<event.chrom, event.pos + Offsets(t)[k][1],
          get_alt_chrom_pos(event.alt).chrom, get_alt_chrom_pos(event.alt).pos + Offsets(t)[k][2]>>]

\* the first candidate key that is in the dict, as its index in keys; 0 for none
FirstHit(d, keys) ==
    IF \E k \in 1..Len(keys) : DictIndex(d, keys[k]) # 0
    THEN SetMin({k \in 1..Len(keys) : DictIndex(d, keys[k]) # 0})
    ELSE 0

RECURSIVE MateLoop(_, _, _, _, _)
\* the loop of find_mate_bnd_events from evs[i] on
MateLoop(evs, i, event_dict, pairs, t) ==
    IF i > Len(evs) THEN pairs
    ELSE IF ~get_alt_chrom_pos(evs[i].alt).ok THEN MateLoop(evs, i + 1, event_dict, pairs, t)
    ELSE LET keys == ReverseKeys(evs[i], t)
             hit == FirstHit(event_dict, keys)
             at == DictIndex(event_dict, keys[hit])
         IN  IF hit # 0
             THEN MateLoop(evs, i + 1, DictRemove(event_dict, at),
                           Append(pairs, <<event_dict[at].val, evs[i]>>), t)
             ELSE MateLoop(evs, i + 1, DictPut(event_dict, ForwardKey(evs[i]), evs[i]), pairs, t)

find_mate_bnd_events(evs, t) == MateLoop(evs, 1, <<>>, <<>>, t)

RECURSIVE Flatten(_)
Flatten(ss) == IF ss = <<>> THEN <<>> ELSE Head(ss) \o Flatten(Tail(ss))

RECURSIVE NoMateLoop(_, _, _, _, _)
\* the loop of find_no_mate_events from evs[i] on; the dict holds lists, and
\* pairs is the function's local mate_bnd_pairs
NoMateLoop(evs, i, event_dict, pairs, t) ==
    IF i > Len(evs) THEN [event_dict |-> event_dict, mate_bnd_pairs |-> pairs]
    ELSE IF ~get_alt_chrom_pos(evs[i].alt).ok THEN NoMateLoop(evs, i + 1, event_dict, pairs, t)
    ELSE LET keys == ReverseKeys(evs[i], t)
             hit == FirstHit(event_dict, keys)
             at == DictIndex(event_dict, keys[hit])
             key == ForwardKey(evs[i])
         IN  IF hit # 0
             THEN \* the first stored event leaves its list; an emptied list leaves the dict
                  NoMateLoop(evs, i + 1,
                             IF Len(event_dict[at].val) = 1 THEN DictRemove(event_dict, at)
                             ELSE [event_dict EXCEPT ![at].val = Tail(@)],
                             Append(pairs, <<Head(event_dict[at].val), evs[i]>>), t)
             ELSE NoMateLoop(evs, i + 1,
                             IF DictIndex(event_dict, key) = 0 THEN DictPut(event_dict, key, <<evs[i]>>)
                             ELSE [event_dict EXCEPT ![DictIndex(event_dict, key)].val = Append(@, evs[i])],
                             pairs, t)

find_no_mate_events(evs, t) ==
    LET d == NoMateLoop(evs, 1, <<>>, <<>>, t).event_dict
    IN  Flatten([k \in 1..Len(d) |-> d[k].val])

RECURSIVE SpecialLoop(_, _, _, _, _)
\* the loop of find_special_no_mate_diff_bnd_pair_and_other_single_tra
SpecialLoop(evs, i, event_dict, pairs, t) ==
    IF i > Len(evs) THEN [pairs |-> pairs, single |-> [k \in 1..Len(event_dict) |-> event_dict[k].val]]
    ELSE IF ~get_alt_chrom_pos(evs[i].alt).ok THEN SpecialLoop(evs, i + 1, event_dict, pairs, t)
    ELSE LET keys == SameDirectionKeys(evs[i], t)
             hit == FirstHit(event_dict, keys)
             at == DictIndex(event_dict, keys[hit])
         IN  IF hit # 0
             THEN SpecialLoop(evs, i + 1, DictRemove(event_dict, at),
                              Append(pairs, <<event_dict[at].val, evs[i]>>), t)
             ELSE SpecialLoop(evs, i + 1, DictPut(event_dict, ForwardKey(evs[i]), evs[i]), pairs, t)

find_special_no_mate_diff_bnd_pair_and_other_single_tra(evs, t) == SpecialLoop(evs, 1, <<>>, <<>>, t)

MateInit ==
    /\ pc = "mate"
    /\ CluIdle /\ FiltIdle
    /\ CorrIdle
    /\ EmitIdle
    /\ SelIdle /\ ExprIdle /\ BndIdle
    /\ diff_chr_bnd_events \in DiffChrInputs
    /\ pos_tolerance \in 0..MaxTolerance
    /\ mate_bnd_pairs = <<>> /\ no_mate_events = <<>>
    /\ special_no_mate_diff_bnd_pairs = <<>> /\ other_single_TRA = <<>>

FindMateBndEvents ==
    /\ pc = "mate"
    /\ mate_bnd_pairs' = find_mate_bnd_events(diff_chr_bnd_events, pos_tolerance)
    /\ pc' = "no_mate"
    /\ UNCHANGED <<corrVars, emitVars, selVars, exprVars, bndVars, cluVars, filtVars, diff_chr_bnd_events, pos_tolerance, no_mate_events,
                   special_no_mate_diff_bnd_pairs, other_single_TRA>>

FindNoMateEvents ==
    /\ pc = "no_mate"
    /\ no_mate_events' = find_no_mate_events(diff_chr_bnd_events, pos_tolerance)
    /\ pc' = "special"
    /\ UNCHANGED <<corrVars, emitVars, selVars, exprVars, bndVars, cluVars, filtVars, diff_chr_bnd_events, pos_tolerance, mate_bnd_pairs,
                   special_no_mate_diff_bnd_pairs, other_single_TRA>>

FindSpecialNoMate ==
    /\ pc = "special"
    /\ \E r \in {find_special_no_mate_diff_bnd_pair_and_other_single_tra(no_mate_events, pos_tolerance)} :
          /\ special_no_mate_diff_bnd_pairs' = r.pairs
          /\ other_single_TRA' = r.single
    /\ pc' = "paired"
    /\ UNCHANGED <<corrVars, emitVars, selVars, exprVars, bndVars, cluVars, filtVars, diff_chr_bnd_events, pos_tolerance, mate_bnd_pairs, no_mate_events>>

MateNext == FindMateBndEvents \/ FindNoMateEvents \/ FindSpecialNoMate

SpecMate == MateInit /\ [][MateNext]_vars

(***************************************************************************)
(* merger/sv_merger.py, merger/multi_sample_writer.py, merger/name_mapper.py: *)
(* the writing of one merged record.  Text is a sequence of characters, so *)
(* that lower(), "in", endswith(), join() and split() are computed.        *)
(* A path is (dir, stem, ext): os.path.basename drops dir, splitext drops  *)
(* ext.                                                                    *)
(***************************************************************************)
SetMax(S) == CHOOSE x \in S : \A y \in S : x >= y

\* str.lower() on the characters the model uses
Lower(c) == IF c = "X" THEN "x" ELSE IF c = "S" THEN "s" ELSE c

LowerSeq(t) == [i \in 1..Len(t) |-> Lower(t[i])]

\* sub in t
Contains(t, sub) == \E i \in 0..(Len(t) - Len(sub)) : SubSeq(t, i + 1, i + Len(sub)) = sub

EndsWith(t, suffix) ==
    Len(t) >= Len(suffix) /\ SubSeq(t, Len(t) - Len(suffix) + 1, Len(t)) = suffix

RECURSIVE Join(_, _)
\* sep.join(parts)
Join(parts, sep) ==
    IF parts = <<>> THEN <<>>
    ELSE IF Len(parts) = 1 THEN parts[1]
    ELSE parts[1] \o <<sep>> \o Join(Tail(parts), sep)

RECURSIVE Split(_, _)
\* t.split(sep)
Split(t, sep) ==
    IF \E i \in 1..Len(t) : t[i] = sep
    THEN LET i == SetMin({k \in 1..Len(t) : t[k] = sep})
         IN  <<SubSeq(t, 1, i - 1)>> \o Split(SubSeq(t, i + 1, Len(t)), sep)
    ELSE <<t>>

\* if s.endswith(":.:."): s = s[:-4]
StripMissingTail(t) == IF EndsWith(t, <<":", ".", ":", ".">>) THEN SubSeq(t, 1, Len(t) - 4) ELSE t

Path(dir, stem) == [dir |-> dir, stem |-> stem, ext |-> ".svcf"]

\* two callers' files of one name in two directories, and a third name
InputPaths == {Path("a", <<"x">>), Path("b", <<"x">>), Path("a", <<"y">>)}

basename(p) == [stem |-> p.stem, ext |-> p.ext]

\* os.path.splitext(os.path.basename(p))[0]
Stem(p) == p.stem

\* sequences without repetition
Distinct(s) == \A i, j \in 1..Len(s) : i # j => s[i] # s[j]

CustomNames == <<<<"n", "1">>, <<"n", "2">>, <<"n", "3">>>>

\* event.format and the keys of a sample dict
FormatText == <<"G", "T", ":", "D", "V", ":", "D", "R">>

\* the text of a sample record: without a file name, with the name x in
\* upper case and two missing trailing values, with the name y
SampleTexts == {<<"1">>, <<"X", ":", ".", ":", ".">>, <<"y", "1">>}

\* origin is history: the input file whose record contributed the sample
Sample(origin, data) == [name |-> <<"S">>, format |-> FormatText, data |-> data, origin |-> origin]

SampleDicts == {<<[key |-> <<"G", "T">>, val |-> <<"1">>]>>,
                <<[key |-> <<"G", "T">>, val |-> <<"1">>], [key |-> <<"D", "V">>, val |-> <<"5">>],
                  [key |-> <<"D", "R">>, val |-> <<"7">>]>>}

SOURCES == <<"S", "O", "U", "R", "C", "E", "S">>

\* event.info as (key, value) entries in order: without SOURCES, with it,
\* and with a key that merely contains the word
InfoDicts == {<<[key |-> <<"T">>, val |-> <<"D">>]>>,
              <<[key |-> SOURCES, val |-> <<"o">>], [key |-> <<"T">>, val |-> <<"D">>]>>,
              <<[key |-> <<"N">> \o SOURCES, val |-> <<"2">>]>>}

\* for source_file in source_files: if input_basename == source_basename: append; break
RECURSIVE OrderedSourcesFrom(_, _, _)
OrderedSourcesFrom(files, source_files, i) ==
    IF i > Len(files) THEN <<>>
    ELSE LET hits == {k \in 1..Len(source_files) : basename(source_files[k]) = basename(files[i])}
         IN  (IF hits # {} THEN <<source_files[SetMin(hits)]>> ELSE <<>>)
             \o OrderedSourcesFrom(files, source_files, i + 1)

_get_ordered_sources_for_event(files, ev) == OrderedSourcesFrom(files, ev.source_file, 1)

get_display_name(input_files, names, file_path) ==
    IF names # <<>> /\ (\E i \in 1..Len(input_files) : input_files[i] = file_path)
    THEN names[SetMin({i \in 1..Len(input_files) : input_files[i] = file_path})]
    ELSE Stem(file_path)

get_all_display_names(input_files, names) ==
    [i \in 1..Len(input_files) |-> get_display_name(input_files, names, input_files[i])]

\* the first ordered basename found in the sample's text or name, as an index; 0 for none
MatchedBasename(sample, ordered_basenames) ==
    LET hits == {k \in 1..Len(ordered_basenames) :
                    \/ Contains(LowerSeq(sample.data), ordered_basenames[k])
                    \/ Contains(LowerSeq(sample.name), ordered_basenames[k])}
    IN  IF hits = {} THEN 0 ELSE SetMin(hits)

_reorder_merged_samples(ev, sources) ==
    LET merged_samples == ev.merged_samples
        ordered_basenames == [k \in 1..Len(sources) |-> LowerSeq(Stem(sources[k]))]
        m == [j \in 1..Len(merged_samples) |-> MatchedBasename(merged_samples[j], ordered_basenames)]
        samples_by_source(b) ==
            SelectIdx(merged_samples, {j \in 1..Len(merged_samples) : m[j] # 0 /\ ordered_basenames[m[j]] = b}, 1)
        unmatched_samples == SelectIdx(merged_samples, {j \in 1..Len(merged_samples) : m[j] = 0}, 1)
    IN  IF merged_samples = <<>> THEN <<>>
        ELSE Flatten([k \in 1..Len(ordered_basenames) |-> samples_by_source(ordered_basenames[k])])
             \o unmatched_samples

format_sample_values(format_keys, sample_dict) ==
    StripMissingTail(Join([k \in 1..Len(format_keys) |->
                              IF DictIndex(sample_dict, format_keys[k]) = 0 THEN <<".">>
                              ELSE sample_dict[DictIndex(sample_dict, format_keys[k])].val], ":"))

\* Steps 4 and 5 of write_results; _get_caller_mode_output_ordered is the same text
CallerSamplePart(ev, reordered) ==
    IF ev.merged_samples # <<>>
    THEN Join([k \in 1..Len(reordered) |-> StripMissingTail(reordered[k].data)], "\t")
    ELSE IF ev.has_sample
    THEN StripMissingTail(format_sample_values(Split(FormatText, ":"), ev.sample))
    ELSE <<".", "/", ".">>

_format_sample_mode_output(input_files, names, ev, format_keys, reordered, sources) ==
    LET sample_names == get_all_display_names(input_files, names)
        caller_mode_output == CallerSamplePart(ev, reordered)
        missing_data == <<"0", "/", "0", ":">> \o Join([k \in 1..(Len(format_keys) - 1) |-> <<".">>], ":")
        caller_data_parts == Split(caller_mode_output, "\t")
        \* source_data_map[display name] = part; a later source of the same name overwrites
        hits(n) == {i \in 1..Min(Len(sources), Len(caller_data_parts)) :
                        get_display_name(input_files, names, sources[i]) = n}
    IN  IF caller_mode_output = <<>> \/ caller_mode_output = <<".", "/", ".">>
        THEN Join([k \in 1..Len(sample_names) |-> missing_data], "\t")
        ELSE Join([k \in 1..Len(sample_names) |->
                      IF hits(sample_names[k]) # {} THEN caller_data_parts[SetMax(hits(sample_names[k]))]
                      ELSE missing_data], "\t")

\* Step 3: the INFO text with SOURCES rewritten, appended when the text lacks the word
InfoField(ev, display) ==
    LET info_items == [k \in 1..Len(ev.info) |->
                          IF ev.info[k].key = SOURCES THEN SOURCES \o <<"=">> \o display
                          ELSE ev.info[k].key \o <<"=">> \o ev.info[k].val]
        joined == Join(info_items, ";")
    IN  IF Contains(joined, SOURCES) THEN joined
        ELSE joined \o <<";">> \o SOURCES \o <<"=">> \o display

MergedEvents(files) ==
    {[source_file |-> sf, info |-> info, merged_samples |-> ms, sample |-> d, has_sample |-> h] :
        sf \in {t \in SeqsUpTo(Range(files), MaxFiles) : Len(t) > 0 /\ Distinct(t)},
        info \in InfoDicts, ms \in SeqsUpTo({Sample(o, t) : o \in Range(files), t \in SampleTexts}, MaxSamples),
        d \in SampleDicts, h \in BOOLEAN}

EmitInit ==
    /\ pc = "emit"
    /\ CluIdle /\ FiltIdle
    /\ CorrIdle /\ MateIdle
    /\ SelIdle /\ ExprIdle /\ BndIdle
    /\ all_input_files \in {t \in SeqsUpTo(InputPaths, MaxFiles) : Len(t) > 0 /\ Distinct(t)}
    /\ custom_names \in {<<>>, SubSeq(CustomNames, 1, Len(all_input_files))}
    /\ mode \in {"caller", "sample"}
    /\ merged_event \in {ev \in MergedEvents(all_input_files) :
                            /\ \A k \in 1..Len(ev.merged_samples) :
                                  ev.merged_samples[k].origin \in Range(ev.source_file)
                            \* the representative carries its own sample; one without
                            \* merged_samples is a record that never went through a group
                            /\ ev.merged_samples # <<>> => (ev.has_sample /\ ev.sample = <<[key |-> <<"G", "T">>, val |-> <<"1">>]>>)
                            /\ ~ev.has_sample => ev.sample = <<[key |-> <<"G", "T">>, val |-> <<"1">>]>>}
    /\ ordered_sources = <<>> /\ display_sources = <<>> /\ info_field = <<>>
    /\ reordered_samples = <<>> /\ sample_part = <<>>

\* one iteration of the loop of write_results, or MultiSampleWriter._write_event
WriteEvent ==
    /\ pc = "emit"
    /\ \E sources \in {_get_ordered_sources_for_event(all_input_files, merged_event)} :
       \E display \in {Join([k \in 1..Len(sources) |->
                               get_display_name(all_input_files, custom_names, sources[k])], ",")} :
       \E reordered \in {_reorder_merged_samples(merged_event, sources)} :
          /\ ordered_sources' = sources
          /\ display_sources' = display
          /\ info_field' = InfoField(merged_event, display)
          /\ reordered_samples' = reordered
          /\ sample_part' = IF mode = "sample"
                            THEN _format_sample_mode_output(all_input_files, custom_names, merged_event,
                                                            Split(FormatText, ":"), reordered, sources)
                            ELSE CallerSamplePart(merged_event, reordered)
    /\ pc' = "written"
    /\ UNCHANGED <<corrVars, mateVars, selVars, exprVars, bndVars, cluVars, filtVars, all_input_files, custom_names, mode, merged_event>>

EmitNext == WriteEvent

SpecEmit == EmitInit /\ [][EmitNext]_vars

(***************************************************************************)
(* merger/sv_merger.py: the selection of merged records by their sources.  *)
(* A merged record carries sv_type and source_file, the list of the input  *)
(* paths its group came from.                                              *)
(***************************************************************************)
\* [e for e in s if test(e)], keep being the set of the elements that pass the test
Filter(s, keep) == SelectIdx(s, {i \in 1..Len(s) : s[i] \in keep}, 1)

\* a set of paths as a list without repetition, in the order of InputPaths below
AsList(P) == SelectIdx(<<Path("a", <<"x">>), Path("b", <<"x">>), Path("a", <<"y">>)>>,
                       {i \in 1..3 : <<Path("a", <<"x">>), Path("b", <<"x">>), Path("a", <<"y">>)>>[i] \in P}, 1)

NonEmptySubsets(P) == SUBSET P \ {{}}

MergedRecord(sv_type, S) == [sv_type |-> sv_type, source_file |-> AsList(S)]

\* {os.path.basename(s) for s in event.source_file.split(",")}
SourceBasenames(ev) == {basename(ev.source_file[k]) : k \in 1..Len(ev.source_file)}

\* len(set(event.source_file.split(",")))
SupportCount(ev) == Cardinality(Range(ev.source_file))

get_all_merged_events(tra, bnd, groups) == tra \o bnd \o groups

\* other_events = [e for e in get_all_merged_events() if e.sv_type not in ["TRA", "BND"]]
OtherEvents(tra, bnd, groups) ==
    Filter(get_all_merged_events(tra, bnd, groups),
           {e \in Range(get_all_merged_events(tra, bnd, groups)) : e.sv_type \notin {"TRA", "BND"}})

\* return other_filtered + tra_filtered + bnd_filtered
Selected(tra, bnd, groups, keep) ==
    Filter(OtherEvents(tra, bnd, groups), keep) \o Filter(tra, keep) \o Filter(bnd, keep)

\* A variant that answers "intersection" as it answers "union".
get_events_by_source_any(tra, bnd, groups, files, srcs, op, source_file) ==
    LET sources_set == {basename(srcs[k]) : k \in 1..Len(srcs)}
        other_files == {basename(files[k]) : k \in 1..Len(files)} \ {source_file}
        all == Range(get_all_merged_events(tra, bnd, groups))
        Union == {e \in all : sources_set \cap SourceBasenames(e) # {}}
        Specific == {e \in all : /\ source_file \in SourceBasenames(e)
                                  /\ ~\E other \in other_files : other \in SourceBasenames(e)}
    IN  IF op \in {"union", "intersection"} THEN Selected(tra, bnd, groups, Union)
        ELSE Selected(tra, bnd, groups, Specific)

\* source_file is next(iter(sources_set)) for the operation "specific"
get_events_by_source(tra, bnd, groups, files, srcs, op, source_file) ==
    LET sources_set == {basename(srcs[k]) : k \in 1..Len(srcs)}
        other_files == {basename(files[k]) : k \in 1..Len(files)} \ {source_file}
        all == Range(get_all_merged_events(tra, bnd, groups))
        Union == {e \in all : sources_set \cap SourceBasenames(e) # {}}
        Intersection == {e \in all : sources_set \subseteq SourceBasenames(e)}
        Specific == {e \in all : /\ source_file \in SourceBasenames(e)
                                  /\ ~\E other \in other_files : other \in SourceBasenames(e)}
    IN  IF op = "union" THEN Selected(tra, bnd, groups, Union)
        ELSE IF op = "intersection" THEN Selected(tra, bnd, groups, Intersection)
        ELSE Selected(tra, bnd, groups, Specific)

get_events_by_exact_support(tra, bnd, groups, k) ==
    Selected(tra, bnd, groups, {e \in Range(get_all_merged_events(tra, bnd, groups)) : SupportCount(e) = k})

\* A variant whose lower bound is strict.
within_range_strict(e, lo, hi) ==
    IF ~lo.none /\ SupportCount(e) <= lo.v THEN FALSE
    ELSE ~(~hi.none /\ SupportCount(e) > hi.v)

within_range(e, lo, hi) ==
    IF ~lo.none /\ SupportCount(e) < lo.v THEN FALSE
    ELSE ~(~hi.none /\ SupportCount(e) > hi.v)

get_events_by_support_range(tra, bnd, groups, lo, hi) ==
    Selected(tra, bnd, groups,
             {e \in Range(get_all_merged_events(tra, bnd, groups)) : within_range(e, lo, hi)})

\* the three stores hold at most MaxClusters records together
Stores(files) ==
    UNION {[tra : [1..n[1] -> {MergedRecord("TRA", S) : S \in NonEmptySubsets(Range(files))}],
            bnd : [1..n[2] -> {MergedRecord("BND", S) : S \in NonEmptySubsets(Range(files))}],
            groups : [1..n[3] -> {MergedRecord("DEL", S) : S \in NonEmptySubsets(Range(files))}]] :
           n \in {m \in (0..MaxClusters) \X (0..MaxClusters) \X (0..MaxClusters) :
                     m[1] + m[2] + m[3] <= MaxClusters}}

SupportBounds == {None} \cup {Some(k) : k \in 1..MaxSupportBound}

SelInit ==
    /\ pc = "select"
    /\ CluIdle /\ FiltIdle
    /\ CorrIdle /\ MateIdle /\ EmitRecordIdle /\ ExprIdle /\ BndIdle
    /\ all_input_files \in {AsList(P) : P \in NonEmptySubsets(InputPaths)}
    /\ \E st \in Stores(all_input_files) :
          tra_events = st.tra /\ bnd_events = st.bnd /\ group_representatives = st.groups
    /\ \/ /\ operation \in {"union", "intersection", "specific"}
          /\ query_sources \in {AsList(P) : P \in NonEmptySubsets(InputPaths)}
          /\ exact_support = None /\ min_support = None /\ max_support = None
       \/ /\ operation = "exact_support"
          /\ exact_support \in {Some(k) : k \in 1..Cardinality(InputPaths)}
          /\ query_sources = <<>> /\ min_support = None /\ max_support = None
       \/ /\ operation = "support_range"
          /\ min_support \in SupportBounds /\ max_support \in SupportBounds
          /\ query_sources = <<>> /\ exact_support = None
    /\ results = <<>>

GetEventsBySource ==
    /\ pc = "select"
    /\ operation \in {"union", "intersection", "specific"}
    /\ \E source_file \in {basename(query_sources[k]) : k \in 1..Len(query_sources)} :
          results' = get_events_by_source(tra_events, bnd_events, group_representatives, all_input_files,
                                          query_sources, operation, source_file)
    /\ pc' = "selected"
    /\ UNCHANGED <<corrVars, mateVars, emitVars, exprVars, bndVars, cluVars, filtVars, tra_events, bnd_events,
                   group_representatives, operation, query_sources, exact_support, min_support, max_support>>

GetEventsByExactSupport ==
    /\ pc = "select"
    /\ operation = "exact_support"
    /\ results' = get_events_by_exact_support(tra_events, bnd_events, group_representatives, exact_support.v)
    /\ pc' = "selected"
    /\ UNCHANGED <<corrVars, mateVars, emitVars, exprVars, bndVars, cluVars, filtVars, tra_events, bnd_events,
                   group_representatives, operation, query_sources, exact_support, min_support, max_support>>

GetEventsBySupportRange ==
    /\ pc = "select"
    /\ operation = "support_range"
    /\ results' = get_events_by_support_range(tra_events, bnd_events, group_representatives,
                                              min_support, max_support)
    /\ pc' = "selected"
    /\ UNCHANGED <<corrVars, mateVars, emitVars, exprVars, bndVars, cluVars, filtVars, tra_events, bnd_events,
                   group_representatives, operation, query_sources, exact_support, min_support, max_support>>

SelNext == GetEventsBySource \/ GetEventsByExactSupport \/ GetEventsBySupportRange

SpecSel == SelInit /\ [][SelNext]_vars

(***************************************************************************)
(* merger/bnd_merge_logic.py: the similarity of two residual BND records.  *)
(* An ALT is the regular expression's six groups: prefix and suffix as     *)
(* "is not empty", the two brackets, the target chromosome and position;   *)
(* matched is FALSE for '.', the empty ALT and a text the expression does  *)
(* not match.                                                              *)
(***************************************************************************)
MergeAlt(prefix, bracket1, target_chr, target_pos, bracket2, suffix) ==
    [matched |-> TRUE, prefix |-> prefix, bracket1 |-> bracket1, target_chr |-> target_chr,
     target_pos |-> target_pos, bracket2 |-> bracket2, suffix |-> suffix]

UnmatchedAlt ==
    [matched |-> FALSE, prefix |-> FALSE, bracket1 |-> "", target_chr |-> "", target_pos |-> 0,
     bracket2 |-> "", suffix |-> FALSE]

\* the ALT of a residual BND: one of the four breakend forms, or a text that does not parse
ResidualAlts ==
    {MergeAlt(pre, br, c, q, br, ~pre) : pre \in BOOLEAN, br \in Brackets, c \in Chroms, q \in Coords}
    \cup {UnmatchedAlt}

ResidualBnds == {[chrom |-> c, pos |-> p, alt |-> a] : c \in Chroms, p \in Coords, a \in ResidualAlts}

\* (pattern, target_chromosome, target_position)
parse_bnd_alt(alt_field) ==
    IF ~alt_field.matched THEN [pattern |-> "UNKNOWN", target_chr |-> None, target_pos |-> None]
    ELSE [pattern |-> IF alt_field.prefix /\ ~alt_field.suffix
                      THEN (IF alt_field.bracket1 = "]" /\ alt_field.bracket2 = "]" THEN "t]p]"
                            ELSE IF alt_field.bracket1 = "[" /\ alt_field.bracket2 = "[" THEN "t[p["
                            ELSE "MIXED")
                      ELSE IF alt_field.suffix /\ ~alt_field.prefix
                      THEN (IF alt_field.bracket1 = "]" /\ alt_field.bracket2 = "]" THEN "]p]t"
                            ELSE IF alt_field.bracket1 = "[" /\ alt_field.bracket2 = "[" THEN "[p[t"
                            ELSE "MIXED")
                      ELSE "UNKNOWN",
          target_chr |-> Some(alt_field.target_chr),
          target_pos |-> Some(alt_field.target_pos)]

\* what a call gives: a boolean, or an exception
Returns(b) == [raised |-> FALSE, value |-> b]

Raises == [raised |-> TRUE, value |-> FALSE]

\* A variant that does not compare the patterns.
should_merge_bnd_any_pattern(e1, e2, d) ==
    LET p1 == parse_bnd_alt(e1.alt)
        p2 == parse_bnd_alt(e2.alt)
    IN  IF e1.chrom # e2.chrom \/ p1.target_chr # p2.target_chr THEN Returns(FALSE)
        ELSE IF p1.target_pos.none \/ p2.target_pos.none THEN Raises
        ELSE Returns(Abs(e1.pos - e2.pos) <= d /\ Abs(p1.target_pos.v - p2.target_pos.v) <= d)

should_merge_bnd(e1, e2, d) ==
    LET p1 == parse_bnd_alt(e1.alt)
        p2 == parse_bnd_alt(e2.alt)
    IN  IF p1.pattern # p2.pattern THEN Returns(FALSE)
        ELSE IF e1.chrom # e2.chrom \/ p1.target_chr # p2.target_chr THEN Returns(FALSE)
        \* abs(target_pos1 - target_pos2) with None is a TypeError
        ELSE IF p1.target_pos.none \/ p2.target_pos.none THEN Raises
        ELSE Returns(Abs(e1.pos - e2.pos) <= d /\ Abs(p1.target_pos.v - p2.target_pos.v) <= d)

BndInit ==
    /\ pc = "compare"
    /\ CluIdle /\ FiltIdle
    /\ CorrIdle /\ MateIdle /\ EmitIdle /\ SelIdle /\ ExprIdle
    /\ bnd_event1 \in ResidualBnds
    /\ bnd_event2 \in ResidualBnds
    /\ delta \in 0..MaxDelta
    /\ merge_decision = None

ShouldMergeBnd ==
    /\ pc = "compare"
    /\ merge_decision' = should_merge_bnd(bnd_event1, bnd_event2, delta)
    /\ pc' = "compared"
    /\ UNCHANGED <<corrVars, mateVars, emitVars, selVars, exprVars, cluVars, filtVars,
                   bnd_event1, bnd_event2, delta>>

BndNext == ShouldMergeBnd

SpecBnd == BndInit /\ [][BndNext]_vars

(***************************************************************************)
(* merger/sv_merger.py: evaluate_expression.  The expression is a text, a  *)
(* sequence of characters; the user's reading of it (its shape and the     *)
(* file basenames it names) is kept beside the text.                       *)
(***************************************************************************)
\* characters that \W matches, among those of the expressions below
NonWordChars == {" ", "(", ")", ".", "-"}

IsWordChar(c) == c \notin NonWordChars

\* the input files of the expression runs: names with a non-word character, with a
\* leading digit, with the letters OR, and two names the sanitisation sends to one
ExprPathList ==
    <<Path("a", <<"y">>), Path("a", <<"x", "-", "y">>), Path("a", <<"x", "_", "y">>),
      Path("a", <<"N", "O", "R">>), Path("a", <<"1">>)>>

ExprPaths == {ExprPathList[i] : i \in 1..Len(ExprPathList)}

\* os.path.basename as text: the stem and ".svcf"
BasenameText(b) == b.stem \o <<".", "s", "v", "c", "f">>

\* re.sub(r"\W|^(?=\d)", "_", file_name)
make_identifier(b) ==
    LET file_name == BasenameText(b)
        replaced  == [i \in 1..Len(file_name) |->
                         IF IsWordChar(file_name[i]) THEN file_name[i] ELSE "_"]
    IN  IF file_name # <<>> /\ file_name[1] \in Digits THEN <<"_">> \o replaced ELSE replaced

\* \b between the characters k and k+1 of t
WordBoundary(t, k) ==
    LET before == k >= 1 /\ IsWordChar(t[k])
        after  == k + 1 <= Len(t) /\ IsWordChar(t[k + 1])
    IN  before # after

MatchesWordAt(t, name, i) ==
    /\ i + Len(name) - 1 <= Len(t)
    /\ t[i] = name[1]
    /\ SubSeq(t, i, i + Len(name) - 1) = name
    /\ WordBoundary(t, i - 1)
    /\ WordBoundary(t, i + Len(name) - 1)

\* re.sub(r"\b" + re.escape(name) + r"\b", identifier, t), from the character i on
RECURSIVE re_sub_word(_, _, _, _)
re_sub_word(t, name, identifier, i) ==
    IF i > Len(t) THEN <<>>
    ELSE IF MatchesWordAt(t, name, i)
         THEN identifier \o re_sub_word(t, name, identifier, i + Len(name))
         ELSE <<t[i]>> \o re_sub_word(t, name, identifier, i + 1)

\* str.replace(old, new), from the character i on
RECURSIVE str_replace(_, _, _, _)
str_replace(t, old, new, i) ==
    IF i > Len(t) THEN <<>>
    ELSE IF i + Len(old) - 1 <= Len(t) /\ t[i] = old[1] /\ SubSeq(t, i, i + Len(old) - 1) = old
         THEN new \o str_replace(t, old, new, i + Len(old))
         ELSE <<t[i]>> \o str_replace(t, old, new, i + 1)

\* the loop over all_sources that rewrites the basenames, all_sources in the order given
RECURSIVE SubstituteSources(_, _, _)
SubstituteSources(expr, ordered, i) ==
    IF i > Len(ordered) THEN expr
    ELSE SubstituteSources(re_sub_word(expr, BasenameText(basename(ordered[i])),
                                       make_identifier(basename(ordered[i])), 1),
                           ordered, i + 1)

ReplaceOperators(expr) ==
    str_replace(str_replace(str_replace(expr, <<"A", "N", "D">>, <<"a", "n", "d">>, 1),
                            <<"O", "R">>, <<"o", "r">>, 1),
                <<"N", "O", "T">>, <<"n", "o", "t">>, 1)

\* the one element of a one-element set
Only(S) == CHOOSE x \in S : TRUE

\* eval's tokens: the words (runs of word characters) and the other characters, blanks dropped
WordEnd(t, i) ==
    CHOOSE j \in i..Len(t) :
        /\ \A k \in i..j : IsWordChar(t[k])
        /\ j = Len(t) \/ ~IsWordChar(t[j + 1])

RECURSIVE Tokenize(_, _)
Tokenize(t, i) ==
    IF i > Len(t) THEN <<>>
    ELSE IF t[i] = " " THEN Tokenize(t, i + 1)
    ELSE IF IsWordChar(t[i])
         THEN Only({<<SubSeq(t, i, j)>> \o Tokenize(t, j + 1) : j \in {WordEnd(t, i)}})
         ELSE << <<t[i]>> >> \o Tokenize(t, i + 1)

Keywords == {<<"a", "n", "d">>, <<"o", "r">>, <<"n", "o", "t">>}

\* a Python name; a word that starts with a digit is not one (and, followed by letters
\* or by a dot and letters as it is here, it is no number either: a SyntaxError)
IsName(tok) == IsWordChar(tok[1]) /\ tok[1] \notin Digits /\ tok \notin Keywords

\* the context dict: its keys, and the keys whose value is True
Context(files, sources) ==
    [keys  |-> {make_identifier(basename(f)) : f \in files} \cup {make_identifier(b) : b \in sources},
     truth |-> {make_identifier(b) : b \in sources}]

\* What eval makes of a token sequence from pos on: ok is FALSE for a SyntaxError; err
\* says an exception was raised while evaluating (NameError, AttributeError); val is
\* the value, True as 1 and False as 0.  live is FALSE for an operand that the
\* short-circuit of and/or skips: it is parsed and not evaluated.
SyntaxErr == [ok |-> FALSE, pos |-> 0, err |-> FALSE, val |-> 0]

HasToken(toks, pos, tok) == pos <= Len(toks) /\ toks[pos] = tok

RECURSIVE ParseOr(_, _, _, _)
RECURSIVE OrRest(_, _, _, _)
RECURSIVE ParseAnd(_, _, _, _)
RECURSIVE AndRest(_, _, _, _)
RECURSIVE ParseNot(_, _, _, _)
RECURSIVE SubRest(_, _, _, _)
RECURSIVE AttrRest(_, _, _)

CloseParen(toks, r) ==
    IF r.ok /\ HasToken(toks, r.pos, <<")">>) THEN [r EXCEPT !.pos = r.pos + 1] ELSE SyntaxErr

ParseAtom(toks, pos, live, ctx) ==
    IF pos > Len(toks) THEN SyntaxErr
    ELSE IF toks[pos] = <<"(">>
         THEN Only({CloseParen(toks, r) : r \in {ParseOr(toks, pos + 1, live, ctx)}})
    ELSE IF IsName(toks[pos])
         THEN [ok |-> TRUE, pos |-> pos + 1,
               err |-> live /\ toks[pos] \notin ctx.keys,
               val |-> IF toks[pos] \in ctx.truth THEN 1 ELSE 0]
    ELSE SyntaxErr

\* name.attribute: a bool has no attribute of these names
AttrRest(toks, r, live) ==
    IF r.ok /\ HasToken(toks, r.pos, <<".">>)
    THEN IF r.pos + 1 <= Len(toks) /\ IsName(toks[r.pos + 1])
         THEN AttrRest(toks, [r EXCEPT !.pos = r.pos + 2, !.err = live], live)
         ELSE SyntaxErr
    ELSE r

ParsePrimary(toks, pos, live, ctx) ==
    Only({AttrRest(toks, r, live) : r \in {ParseAtom(toks, pos, live, ctx)}})

SubJoin(toks, r, q, live, ctx) ==
    IF ~q.ok THEN SyntaxErr
    ELSE SubRest(toks, [ok |-> TRUE, pos |-> q.pos, err |-> r.err \/ q.err, val |-> r.val - q.val],
                 live, ctx)

\* left - right
SubRest(toks, r, live, ctx) ==
    IF r.ok /\ HasToken(toks, r.pos, <<"-">>)
    THEN Only({SubJoin(toks, r, q, live, ctx) :
                  q \in {ParsePrimary(toks, r.pos + 1, live /\ ~r.err, ctx)}})
    ELSE r

ParseArith(toks, pos, live, ctx) ==
    Only({SubRest(toks, r, live, ctx) : r \in {ParsePrimary(toks, pos, live, ctx)}})

NotOf(r) == IF ~r.ok THEN SyntaxErr ELSE [r EXCEPT !.val = IF r.val = 0 THEN 1 ELSE 0]

ParseNot(toks, pos, live, ctx) ==
    IF HasToken(toks, pos, <<"n", "o", "t">>)
    THEN Only({NotOf(r) : r \in {ParseNot(toks, pos + 1, live, ctx)}})
    ELSE ParseArith(toks, pos, live, ctx)

AndJoin(toks, r, q, live, ctx) ==
    IF ~q.ok THEN SyntaxErr
    ELSE AndRest(toks, [ok |-> TRUE, pos |-> q.pos, err |-> r.err \/ q.err,
                        val |-> IF r.val = 0 THEN r.val ELSE q.val],
                 live, ctx)

\* left and right: right is evaluated when left is true
AndRest(toks, r, live, ctx) ==
    IF r.ok /\ HasToken(toks, r.pos, <<"a", "n", "d">>)
    THEN Only({AndJoin(toks, r, q, live, ctx) :
                  q \in {ParseNot(toks, r.pos + 1, live /\ ~r.err /\ r.val # 0, ctx)}})
    ELSE r

ParseAnd(toks, pos, live, ctx) ==
    Only({AndRest(toks, r, live, ctx) : r \in {ParseNot(toks, pos, live, ctx)}})

OrJoin(toks, r, q, live, ctx) ==
    IF ~q.ok THEN SyntaxErr
    ELSE OrRest(toks, [ok |-> TRUE, pos |-> q.pos, err |-> r.err \/ q.err,
                       val |-> IF r.val # 0 THEN r.val ELSE q.val],
                live, ctx)

\* left or right: right is evaluated when left is false
OrRest(toks, r, live, ctx) ==
    IF r.ok /\ HasToken(toks, r.pos, <<"o", "r">>)
    THEN Only({OrJoin(toks, r, q, live, ctx) :
                  q \in {ParseAnd(toks, r.pos + 1, live /\ ~r.err /\ r.val = 0, ctx)}})
    ELSE r

ParseOr(toks, pos, live, ctx) ==
    Only({OrRest(toks, r, live, ctx) : r \in {ParseAnd(toks, pos, live, ctx)}})

EvalResult(toks, r) ==
    IF r.ok /\ r.pos = Len(toks) + 1 /\ ~r.err THEN Returns(r.val # 0) ELSE Raises

\* eval(expr, {"__builtins__": {}}, context); every exception becomes the ValueError;
\* the value is given as its truth, which is what the caller's filter uses
PyEval(expr, ctx) ==
    Only({EvalResult(toks, ParseOr(toks, 1, TRUE, ctx)) : toks \in {Tokenize(expr, 1)}})

\* files: all_input_files; sources: the basenames of the event's source files;
\* ordered: set(all_input_files) in the order its iteration gives
evaluate_expression(files, expr_text, sources, ordered) ==
    Only({PyEval(ReplaceOperators(SubstituteSources(expr_text, ordered, 1)), context) :
             context \in {Context({files[i] : i \in 1..Len(files)},
                                  {sources[i] : i \in 1..Len(sources)})}})

\* The expressions of the runs, t, t1, t2, t3 being basenames:
\*   t      NOT t      t1 AND t2      t1 OR t2      (t1 AND t2) AND NOT t3
ExpressionText(shape, tokens) ==
    IF shape = "name" THEN BasenameText(tokens[1])
    ELSE IF shape = "not" THEN <<"N", "O", "T", " ">> \o BasenameText(tokens[1])
    ELSE IF shape = "and"
         THEN BasenameText(tokens[1]) \o <<" ", "A", "N", "D", " ">> \o BasenameText(tokens[2])
    ELSE IF shape = "or"
         THEN BasenameText(tokens[1]) \o <<" ", "O", "R", " ">> \o BasenameText(tokens[2])
    ELSE <<"(">> \o BasenameText(tokens[1]) \o <<" ", "A", "N", "D", " ">> \o BasenameText(tokens[2])
         \o <<")", " ", "A", "N", "D", " ", "N", "O", "T", " ">> \o BasenameText(tokens[3])

Expression(shape, tokens) ==
    [shape |-> shape, tokens |-> tokens, text |-> ExpressionText(shape, tokens)]

ExprBasenames == {basename(p) : p \in ExprPaths}

Expressions ==
    {Expression(sh, <<t>>) : sh \in {"name", "not"}, t \in ExprBasenames}
    \cup {Expression(sh, <<t1, t2>>) : sh \in {"and", "or"}, t1 \in ExprBasenames, t2 \in ExprBasenames}
    \cup {Expression("and_and_not", <<t1, t2, t3>>) :
             t1 \in ExprBasenames, t2 \in ExprBasenames, t3 \in ExprBasenames}

\* a set of the paths above as a list, in the order of ExprPathList
ExprAsList(P) == SelectIdx(ExprPathList, {i \in 1..Len(ExprPathList) : ExprPathList[i] \in P}, 1)

\* the orders in which the iteration of set(all_input_files) can give the files
Orderings(files) ==
    {o \in [1..Len(files) -> {files[i] : i \in 1..Len(files)}] :
        \A i, j \in 1..Len(files) : i # j => o[i] # o[j]}

ExprInit ==
    /\ pc = "evaluate"
    /\ CluIdle /\ FiltIdle
    /\ CorrIdle /\ MateIdle /\ EmitRecordIdle /\ SelIdle /\ BndIdle
    /\ all_input_files \in {ExprAsList(P) : P \in {Q \in SUBSET ExprPaths : Cardinality(Q) \in 1..MaxFiles}}
    /\ expression \in Expressions
    /\ \E S \in NonEmptySubsets({all_input_files[i] : i \in 1..Len(all_input_files)}) :
           event_sources = [i \in 1..Len(ExprAsList(S)) |-> basename(ExprAsList(S)[i])]
    /\ expr_value = None

\* one call of evaluate_expression by get_events_by_expression
EvaluateExpression ==
    /\ pc = "evaluate"
    /\ \E ordered \in Orderings(all_input_files) :
           expr_value' = evaluate_expression(all_input_files, expression.text, event_sources, ordered)
    /\ pc' = "evaluated"
    /\ UNCHANGED <<corrVars, mateVars, emitVars, selVars, bndVars, cluVars, filtVars, expression, event_sources>>

ExprNext == EvaluateExpression

SpecExpr == ExprInit /\ [][ExprNext]_vars

(***************************************************************************)
(* The cluster store: SVMerger.add_and_merge_event for the records of one  *)
(* (sv_type, chromosome), BNDMerger.add_event and merge_events for the     *)
(* residual BND records of one chromosome pair.  A record carries seq, the *)
(* number of its arrival, as history.                                      *)
(***************************************************************************)
MaxIngest == 3

MaxDistance == 2

IntraTypes == {"DEL", "DUP"}

IntraKeys == {<<t, "chr1">> : t \in IntraTypes}

IntraRecords ==
    {[sv_type |-> t, chrom |-> "chr1", pos |-> p, end_pos |-> e] :
        t \in IntraTypes, p \in Coords, e \in {5, 20}}

\* residual BND records of chr1: two orientation patterns, mates on chr1 and chr2, and
\* an ALT that does not parse
ClusterBnds ==
    {[chrom |-> "chr1", pos |-> p, alt |-> a] :
        p \in Coords,
        a \in {MergeAlt(TRUE, "[", "chr1", 1, "[", FALSE), MergeAlt(TRUE, "[", "chr2", 1, "[", FALSE),
               MergeAlt(TRUE, "]", "chr1", 1, "]", FALSE), UnmatchedAlt}}

\* the intra-chromosomal predicate of sv_merge_logic: same type, starts and ends within
\* max_distance, length ratio at most 1.3, Jaccard of the closed intervals at least 0.7
should_merge(event1, event2, distance) ==
    LET la == Max(event1.end_pos - event1.pos, 1)
        lb == Max(event2.end_pos - event2.pos, 1)
        inter == Max(0, Min(event1.end_pos, event2.end_pos) - Max(event1.pos, event2.pos) + 1)
        union == (event1.end_pos - event1.pos + 1) + (event2.end_pos - event2.pos + 1) - inter
    IN  /\ event1.sv_type = event2.sv_type
        /\ Abs(event1.pos - event2.pos) <= distance
        /\ Abs(event1.end_pos - event2.end_pos) <= distance
        /\ 10 * Max(la, lb) <= 13 * Min(la, lb)
        /\ 10 * inter >= 7 * union

\* A variant that tests the new record against every member of a group.
FirstMatchingGroup_any_member(firsts, groups, new_event, distance) ==
    LET hits == {idx \in 1..Len(groups) :
                    \E m \in 1..Len(groups[idx]) : should_merge(groups[idx][m], new_event, distance)}
    IN  IF hits = {} THEN 0 ELSE SetMin(hits)

\* A variant that finds no group to match.
FirstMatchingGroup_none(firsts, groups, new_event, distance) == 0

\* for idx, existing_event in enumerate(events): the first idx that matches, 0 for none
FirstMatchingGroup(firsts, groups, new_event, distance) ==
    LET hits == {idx \in 1..Len(firsts) : should_merge(firsts[idx], new_event, distance)}
    IN  IF hits = {} THEN 0 ELSE SetMin(hits)

\* the lists of one (sv_type, chromosome) after add_and_merge_event
add_and_merge_event(firsts, groups, new_event, distance) ==
    LET idx == FirstMatchingGroup(firsts, groups, new_event, distance)
    IN  IF idx # 0
        THEN [events |-> firsts,
              event_groups |-> [groups EXCEPT ![idx] = Append(groups[idx], new_event)]]
        ELSE [events |-> Append(firsts, new_event),
              event_groups |-> Append(groups, <<new_event>>)]

SortedPair(chrom1, chrom2) ==
    IF chrom1 = "chr2" /\ chrom2 = "chr1" THEN <<chrom2, chrom1>> ELSE <<chrom1, chrom2>>

BndKeys == {SortedPair(c1, c2) : c1 \in Chroms, c2 \in Chroms}

\* A variant that files every record under its own chromosome.
add_event_key_own_chromosome(bnd) == <<bnd.chrom, bnd.chrom>>

\* BNDMerger.add_event: the key of the record
add_event_key(bnd) ==
    IF parse_bnd_alt(bnd.alt).target_chr.none THEN <<bnd.chrom, bnd.chrom>>
    ELSE SortedPair(bnd.chrom, parse_bnd_alt(bnd.alt).target_chr.v)

\* the inner loop of merge_events over the groups, from idx on: the index of the group
\* that takes current_event, 0 for none, -1 when should_merge_bnd raises
RECURSIVE ScanGroups(_, _, _, _)
ScanGroups(groups, idx, current_event, d) ==
    IF idx > Len(groups) THEN 0
    ELSE IF should_merge_bnd(groups[idx][1], current_event, d).raised THEN -1
    ELSE IF should_merge_bnd(groups[idx][1], current_event, d).value THEN idx
    ELSE ScanGroups(groups, idx + 1, current_event, d)

\* the loop of merge_events over the unmerged events of one chromosome pair, from i on
RECURSIVE MergeLoop(_, _, _, _)
MergeLoop(unmerged_events, i, groups, d) ==
    IF i > Len(unmerged_events) THEN [raised |-> FALSE, groups |-> groups]
    ELSE LET idx == ScanGroups(groups, 1, unmerged_events[i], d)
         IN  IF idx = -1 THEN [raised |-> TRUE, groups |-> groups]
             ELSE IF idx = 0
                  THEN MergeLoop(unmerged_events, i + 1, Append(groups, <<unmerged_events[i]>>), d)
                  ELSE MergeLoop(unmerged_events, i + 1,
                                 [groups EXCEPT ![idx] = Append(groups[idx], unmerged_events[i])], d)

\* all_chromosome_pair_events, or that the call raised
merge_events(store, d) ==
    [raised |-> \E k \in BndKeys : MergeLoop(store[k], 1, <<>>, d).raised,
     groups |-> [k \in BndKeys |-> MergeLoop(store[k], 1, <<>>, d).groups]]

CluInit ==
    /\ pc = "ingest"
    /\ CorrIdle /\ MateIdle /\ EmitIdle /\ SelIdle /\ ExprIdle /\ FiltIdle
    /\ bnd_event1 = None /\ bnd_event2 = None /\ merge_decision = None
    /\ delta \in 0..MaxDelta
    /\ max_distance \in 1..MaxDistance
    /\ merged_events = [k \in IntraKeys |-> <<>>]
    /\ event_groups = [k \in IntraKeys |-> <<>>]
    /\ bnd_store = [k \in BndKeys |-> <<>>]
    /\ merged_event_groups = [k \in BndKeys |-> <<>>]
    /\ ingested = 0

\* SVMerger.merge: one record of a type other than TRA and BND
AddAndMergeEvent ==
    /\ pc \in {"ingest", "merged"}
    /\ ingested < MaxIngest
    /\ \E r \in IntraRecords :
       \E after \in {add_and_merge_event(merged_events[<<r.sv_type, r.chrom>>],
                                         event_groups[<<r.sv_type, r.chrom>>],
                                         [sv_type |-> r.sv_type, chrom |-> r.chrom, pos |-> r.pos,
                                          end_pos |-> r.end_pos, seq |-> ingested + 1],
                                         max_distance)} :
          /\ merged_events' = [merged_events EXCEPT ![<<r.sv_type, r.chrom>>] = after.events]
          /\ event_groups' = [event_groups EXCEPT ![<<r.sv_type, r.chrom>>] = after.event_groups]
    /\ ingested' = ingested + 1
    /\ pc' = "ingest"
    /\ UNCHANGED <<corrVars, mateVars, emitVars, selVars, exprVars, bndVars, filtVars,
                   bnd_store, merged_event_groups, max_distance>>

\* SVMerger.merge: one BND record, BNDMerger.add_event
AddBndEvent ==
    /\ pc \in {"ingest", "merged"}
    /\ ingested < MaxIngest
    /\ \E r \in ClusterBnds :
          bnd_store' = [bnd_store EXCEPT ![add_event_key(r)] =
                           Append(@, [chrom |-> r.chrom, pos |-> r.pos, alt |-> r.alt, seq |-> ingested + 1])]
    /\ ingested' = ingested + 1
    /\ pc' = "ingest"
    /\ UNCHANGED <<corrVars, mateVars, emitVars, selVars, exprVars, bndVars, filtVars,
                   merged_events, event_groups, merged_event_groups, max_distance>>

\* BNDMerger.merge_events; an exception of should_merge_bnd ends the run
MergeEvents ==
    /\ pc = "ingest"
    /\ \E r \in {merge_events(bnd_store, delta)} :
          IF r.raised
          THEN pc' = "merge_raised" /\ UNCHANGED merged_event_groups
          ELSE pc' = "merged" /\ merged_event_groups' = r.groups
    /\ UNCHANGED <<corrVars, mateVars, emitVars, selVars, exprVars, bndVars, filtVars,
                   merged_events, event_groups, bnd_store, max_distance, ingested>>

CluNext == AddAndMergeEvent \/ AddBndEvent \/ MergeEvents

SpecClu == CluInit /\ [][CluNext]_vars

(***************************************************************************)
(* filter/quality_filter.py: QualityFilter.filter_event and its counters.  *)
(* An event is given by what the filter's getters read from it: QUAL,      *)
(* FILTER, the supporting reads, the depth, GQ, SVLEN and GT, None for a   *)
(* value that is missing.                                                  *)
(***************************************************************************)
MaxCalls == 2

\* thresholds: none; all of them; the minima and the no-call exclusion; all but QUAL and FILTER
QualityFilters ==
    {[min_qual |-> None, max_qual |-> None, min_support |-> None, max_support |-> None,
      min_depth |-> None, max_depth |-> None, min_gq |-> None, min_svlen |-> None,
      max_svlen |-> None, filter_pass |-> FALSE, exclude_nocall |-> FALSE],
     [min_qual |-> Some(2), max_qual |-> Some(4), min_support |-> Some(2), max_support |-> Some(4),
      min_depth |-> Some(2), max_depth |-> Some(4), min_gq |-> Some(2), min_svlen |-> Some(2),
      max_svlen |-> Some(4), filter_pass |-> TRUE, exclude_nocall |-> TRUE],
     [min_qual |-> Some(2), max_qual |-> None, min_support |-> Some(2), max_support |-> None,
      min_depth |-> Some(2), max_depth |-> None, min_gq |-> Some(2), min_svlen |-> Some(2),
      max_svlen |-> None, filter_pass |-> FALSE, exclude_nocall |-> TRUE],
     [min_qual |-> None, max_qual |-> None, min_support |-> Some(2), max_support |-> Some(4),
      min_depth |-> Some(2), max_depth |-> Some(4), min_gq |-> Some(2), min_svlen |-> Some(2),
      max_svlen |-> Some(4), filter_pass |-> FALSE, exclude_nocall |-> TRUE]}

\* a value as the file gives it: missing ('.', '' or absent), a number, a text that is no
\* number, or a number too large for a float ('inf', '1e999')
Raw(kind, v) == [kind |-> kind, v |-> v]

\* events: every value inside or outside the thresholds above, an event without values,
\* and events with one value that is no number or is infinite
FilterEvents ==
    {[qual |-> Some(q), filter |-> f, support |-> Raw("int", su), depth |-> Raw("int", d),
      gq |-> Raw("int", g), svlen |-> Raw("int", l), gt |-> Some(t)] :
        q \in {3, 1}, f \in {"pass", "q10"}, su \in {3, 5}, d \in {3, 1}, g \in {3, 1},
        l \in {-3, -5}, t \in {"0/1", "./."}}
    \cup {[qual |-> None, filter |-> "PASS", support |-> Raw("missing", 0), depth |-> Raw("missing", 0),
           gq |-> Raw("missing", 0), svlen |-> Raw("missing", 0), gt |-> None]}
    \cup {[[qual |-> Some(3), filter |-> "PASS", support |-> Raw("int", 3), depth |-> Raw("int", 3),
            gq |-> Raw("int", 3), svlen |-> Raw("int", 3), gt |-> Some("0/1")]
              EXCEPT ![fld] = Raw(k, 0)] :
             fld \in {"support", "depth", "gq", "svlen"}, k \in {"word", "inf"}}

\* str.upper of a FILTER value
Upper(f) == IF f = "pass" THEN "PASS" ELSE f

\* int(float(value)): None for a missing value and for a ValueError; the OverflowError of
\* an infinite float is not caught
_safe_int(value) ==
    IF value.kind = "int" THEN [raised |-> FALSE, value |-> Some(value.v)]
    ELSE IF value.kind = "inf" THEN [raised |-> TRUE, value |-> None]
    ELSE [raised |-> FALSE, value |-> None]

\* _get_svlen_value: abs of the SVLEN
_get_svlen_value(event) ==
    IF _safe_int(event.svlen).raised \/ _safe_int(event.svlen).value.none THEN _safe_int(event.svlen)
    ELSE [raised |-> FALSE, value |-> Some(Abs(_safe_int(event.svlen).value.v))]

\* the body shared by _check_qual_filter, _check_support_filter, _check_depth_filter,
\* _check_svlen_filter, and by _check_gq_filter with no maximum: "pass", "fail", or
\* "raise" when the getter raises; the getter is not called without a threshold
CheckRange(lo, hi, got) ==
    IF lo.none /\ hi.none THEN "pass"
    ELSE IF got.raised THEN "raise"
    ELSE IF got.value.none THEN "pass"
    ELSE IF ~lo.none /\ got.value.v < lo.v THEN "fail"
    ELSE IF ~hi.none /\ got.value.v > hi.v THEN "fail"
    ELSE "pass"

_check_filter_field(qf, event) == ~qf.filter_pass \/ Upper(event.filter) = "PASS"

_check_nocall_filter(qf, event) ==
    IF ~qf.exclude_nocall THEN TRUE
    ELSE IF event.gt.none THEN TRUE
    ELSE event.gt.v \notin {"./.", ".|.", "."}

NewStats ==
    [total |-> 0, passed |-> 0, filtered_qual |-> 0, filtered_support |-> 0, filtered_depth |-> 0,
     filtered_gq |-> 0, filtered_svlen |-> 0, filtered_pass |-> 0, filtered_nocall |-> 0]

\* the checks of filter_event from the support check on: the outcome of the first check
\* that does not pass, "pass" when all pass
LaterChecks(qf, event) ==
    LET outcomes == <<CheckRange(qf.min_support, qf.max_support, _safe_int(event.support)),
                      CheckRange(qf.min_depth, qf.max_depth, _safe_int(event.depth)),
                      CheckRange(qf.min_gq, None, _safe_int(event.gq)),
                      CheckRange(qf.min_svlen, qf.max_svlen, _get_svlen_value(event)),
                      IF _check_nocall_filter(qf, event) THEN "pass" ELSE "fail">>
        stopped == {c \in 1..5 : outcomes[c] # "pass"}
    IN  IF stopped = {} THEN [check |-> 0, outcome |-> "pass"]
        ELSE [check |-> SetMin(stopped), outcome |-> outcomes[SetMin(stopped)]]

\* the stats after the call, what the call returns, and whether it raised instead
filter_event(qf, st, event) ==
    LET counted == [st EXCEPT !.total = @ + 1]
        later == LaterChecks(qf, event)
    IN  IF CheckRange(qf.min_qual, qf.max_qual, [raised |-> FALSE, value |-> event.qual]) = "fail"
        THEN [stats |-> [counted EXCEPT !.filtered_qual = @ + 1], passed |-> FALSE, raised |-> FALSE]
        ELSE IF ~_check_filter_field(qf, event)
        THEN [stats |-> [counted EXCEPT !.filtered_pass = @ + 1], passed |-> FALSE, raised |-> FALSE]
        ELSE IF later.outcome = "raise"
        THEN [stats |-> counted, passed |-> FALSE, raised |-> TRUE]
        ELSE IF later.outcome = "pass"
        THEN [stats |-> [counted EXCEPT !.passed = @ + 1], passed |-> TRUE, raised |-> FALSE]
        ELSE [stats |-> [counted EXCEPT ![<<"filtered_support", "filtered_depth", "filtered_gq",
                                            "filtered_svlen", "filtered_nocall">>[later.check]] = @ + 1],
              passed |-> FALSE, raised |-> FALSE]

\* stats.copy() with pass_rate, the rate as (passed, total) and as (0, 1) for no call
get_stats(st) ==
    [counts |-> st, pass_rate |-> IF st.total > 0 THEN <<st.passed, st.total>> ELSE <<0, 1>>]

FiltInit ==
    /\ pc = "filter"
    /\ CorrIdle /\ MateIdle /\ EmitIdle /\ SelIdle /\ ExprIdle /\ BndIdle /\ CluIdle
    /\ quality_filter \in QualityFilters
    /\ stats = NewStats
    /\ filtered_event = None
    /\ filter_passed = None
    /\ filter_calls = 0

\* one filter_event call; an exception ends the run
FilterEvent ==
    /\ pc \in {"filter", "filtered"}
    /\ filter_calls < MaxCalls
    /\ \E event \in FilterEvents :
       \E r \in {filter_event(quality_filter, stats, event)} :
          /\ stats' = r.stats
          /\ filter_passed' = IF r.raised THEN None ELSE Some(r.passed)
          /\ filtered_event' = event
          /\ pc' = IF r.raised THEN "filter_raised" ELSE "filtered"
    /\ filter_calls' = filter_calls + 1
    /\ UNCHANGED <<corrVars, mateVars, emitVars, selVars, exprVars, bndVars, cluVars, quality_filter>>

FiltNext == FilterEvent

SpecFilt == FiltInit /\ [][FiltNext]_vars

(***************************************************************************)
(* Claims about the same-chromosome correction, checked under SpecCorr.    *)
(***************************************************************************)
MatePos(e) == get_alt_chrom_pos(e.alt).pos

MateChrom(e) == get_alt_chrom_pos(e.alt).chrom

\* "a and b reference each other exactly" (the exact-reference rule)
ExactReference(a, b) ==
    /\ a.chrom = MateChrom(b) /\ b.chrom = MateChrom(a)
    /\ a.pos = MatePos(b) /\ b.pos = MatePos(a)

\* one member t[p[, the other ]p]t; Fwd is the t[p[ member
HasFwdRevPatterns(a, b) ==
    \/ get_bnd_pattern(a.alt) = "t[p[" /\ get_bnd_pattern(b.alt) = "]p]t"
    \/ get_bnd_pattern(a.alt) = "]p]t" /\ get_bnd_pattern(b.alt) = "t[p["

Fwd(a, b) == IF get_bnd_pattern(a.alt) = "t[p[" THEN a ELSE b

DelCriteria(a, b) == HasFwdRevPatterns(a, b) /\ MatePos(Fwd(a, b)) > Fwd(a, b).pos

DupCriteria(a, b) == HasFwdRevPatterns(a, b) /\ MatePos(Fwd(a, b)) < Fwd(a, b).pos

InvCriteria(a, b) ==
    /\ get_bnd_pattern(a.alt) = get_bnd_pattern(b.alt)
    /\ get_bnd_pattern(a.alt) \in {"t]p]", "[p[t"}

\* d is the rewrite of the pair (a, b) as svtype: a clone of the lower-position
\* member with pos, END, SVLEN, CHR2, SVTYPE and ALT set
IsRewriteOf(d, a, b, svtype) ==
    /\ \E l \in {a, b} : /\ l.pos = Min(a.pos, b.pos)
                         /\ d.id = l.id /\ d.chrom = l.chrom /\ d.ref = l.ref
    /\ d.pos = Min(a.pos, b.pos)
    /\ d.info.END = Num(Max(a.pos, b.pos))
    /\ d.info.SVLEN = Num(d.info.END.n - d.pos)
    /\ d.info.CHR2 = d.chrom
    /\ d.info.SVTYPE = svtype
    /\ d.alt.kind = "<" \o svtype \o ">"

\* the input records some rewrite consumed
ConsumedOids ==
    {p[k].oid : k \in {1, 2}, p \in Range(del_pairs) \cup Range(dup_pairs) \cup Range(inv_pairs)}

\* C1: after apply_transforms no two residual BND records of the returned list
\* reference each other exactly and satisfy the DEL, DUP or INV criteria.
C1_NoRewritablePairRemains ==
    pc = "done" =>
        \A i, j \in 1..Len(result) :
            (i # j /\ is_BND(result[i]) /\ is_BND(result[j])) =>
                ~(/\ ExactReference(result[i], result[j])
                  /\ \/ DelCriteria(result[i], result[j])
                     \/ DupCriteria(result[i], result[j])
                     \/ InvCriteria(result[i], result[j]))

\* C2: every pair rewritten as a DEL is a same-chromosome pair whose members
\* reference each other's positions, one t[p[ and one ]p]t, the t[p[ member's
\* mate position above its own; the DEL is the clone of the lower member with
\* pos = min, END = max, SVLEN = END - pos, CHR2 = chrom, SVTYPE = DEL, ALT = <DEL>.
C2_DelRewrite ==
    pc = "done" =>
        /\ Len(del_pairs) = Len(converted_del_events)
        /\ \A k \in 1..Len(del_pairs) :
              LET a == del_pairs[k][1]
                  b == del_pairs[k][2]
              IN  /\ a.chrom = b.chrom
                  /\ a.pos = MatePos(b) /\ b.pos = MatePos(a)
                  /\ DelCriteria(a, b)
                  /\ IsRewriteOf(converted_del_events[k], a, b, "DEL")

\* N[chr1:500[ at 200 with ]chr1:200]N at 500 gives pos 200, END 500, SVLEN 300
C2_Witness ==
    /\ pc = "done"
    /\ \E k \in 1..Len(del_pairs) :
          /\ \E a, b \in {del_pairs[k][1], del_pairs[k][2]} :
                /\ a.pos = 200 /\ a.alt = BndAlt(TRUE, "[", "chr1", 500)
                /\ b.pos = 500 /\ b.alt = BndAlt(FALSE, "]", "chr1", 200)
          /\ converted_del_events[k].pos = 200
          /\ converted_del_events[k].info.END = Num(500)
          /\ converted_del_events[k].info.SVLEN = Num(300)

\* C3: every pair rewritten as a DUP references each other's positions, one
\* t[p[ and one ]p]t, the t[p[ member's mate position below its own; the DUP is
\* the clone of the lower member with pos = min, END = max, SVLEN = END - pos,
\* CHR2 = chrom, SVTYPE = DUP, ALT = <DUP>.
C3_DupRewrite ==
    pc = "done" =>
        /\ Len(dup_pairs) = Len(converted_dup_events)
        /\ \A k \in 1..Len(dup_pairs) :
              LET a == dup_pairs[k][1]
                  b == dup_pairs[k][2]
              IN  /\ a.chrom = b.chrom
                  /\ ExactReference(a, b)
                  /\ DupCriteria(a, b)
                  /\ IsRewriteOf(converted_dup_events[k], a, b, "DUP")

\* the shape of C[chr1:10004[ at 10574 with ]chr1:10574]C at 10004, on the
\* model's positions: t[p[ at 500 naming 200, ]p]t at 200 naming 500
C3_Witness ==
    /\ pc = "done"
    /\ \E k \in 1..Len(dup_pairs) :
          /\ \E a, b \in {dup_pairs[k][1], dup_pairs[k][2]} :
                /\ a.pos = 500 /\ a.alt = BndAlt(TRUE, "[", "chr1", 200)
                /\ b.pos = 200 /\ b.alt = BndAlt(FALSE, "]", "chr1", 500)
          /\ converted_dup_events[k].pos = 200
          /\ converted_dup_events[k].info.END = Num(500)
          /\ converted_dup_events[k].info.SVLEN = Num(300)

C5_SvmethodEverywhere ==
    pc = "done" => \A k \in 1..Len(result) : result[k].info.SVMETHOD = "OctopuSV"

PairMemberOids(pairs) == {pairs[k][1].oid : k \in 1..Len(pairs)} \cup {pairs[k][2].oid : k \in 1..Len(pairs)}

\* how many times the record with identity o occurs in the pairs, and in a list
OccursInPairs(pairs, o) ==
    Cardinality({k \in 1..Len(pairs) : pairs[k][1].oid = o})
    + Cardinality({k \in 1..Len(pairs) : pairs[k][2].oid = o})

OccursInList(l, o) == Cardinality({k \in 1..Len(l) : l[k].oid = o})

AllParsable == \A k \in 1..Len(diff_chr_bnd_events) : get_alt_chrom_pos(diff_chr_bnd_events[k].alt).ok

\* the cross-chromosome records that feed the written output: the members of
\* mate_bnd_pairs, of special_no_mate_diff_bnd_pairs, and other_single_TRA
EmittedDiffChrOids ==
    PairMemberOids(mate_bnd_pairs) \cup PairMemberOids(special_no_mate_diff_bnd_pairs)
    \cup {other_single_TRA[k].oid : k \in 1..Len(other_single_TRA)}

\* C7: when every cross-chromosome record parses, the mate pairs of
\* find_mate_bnd_events and the no_mate list of find_no_mate_events partition
\* the input: each record is a member of exactly one pair or occurs exactly
\* once in no_mate, never both and never neither.
C7_MatePairsAndNoMatePartition ==
    (pc \in {"special", "paired"} /\ AllParsable) =>
        \A k \in 1..Len(diff_chr_bnd_events) :
            OccursInPairs(mate_bnd_pairs, diff_chr_bnd_events[k].oid)
            + OccursInList(no_mate_events, diff_chr_bnd_events[k].oid) = 1

\* C8: a cross-chromosome record whose ALT does not parse is skipped by the
\* pairing and is still among the records that reach the written output.
C8_UnparsableRecordRetained ==
    pc = "paired" =>
        \A k \in 1..Len(diff_chr_bnd_events) :
            ~get_alt_chrom_pos(diff_chr_bnd_events[k].alt).ok
                => diff_chr_bnd_events[k].oid \in EmittedDiffChrOids


(***************************************************************************)
(* Claims about the emitter.                                               *)
(***************************************************************************)
\* the source set S of the record being written
SourceSet == Range(merged_event.source_file)

\* the input-file list restricted to the members of S, in input-file order
SourcesProjection == SelectIdx(all_input_files, {i \in 1..Len(all_input_files) : all_input_files[i] \in SourceSet}, 1)

\* C9: in both modes the SOURCES value of a written record is the input-file
\* list restricted to the record's source set, in input-file order, each file
\* mapped to its display name: none missing, none repeated, whatever the
\* order in which the group's records were ingested.
C9_SourcesInInputOrder ==
    pc = "written" =>
        display_sources = Join([k \in 1..Len(SourcesProjection) |->
                                   get_display_name(all_input_files, custom_names, SourcesProjection[k])], ",")

\* C10: in caller mode the SAMPLE content of a written record is the
\* tab-separated list of exactly one sample record per source, the k-th one
\* contributed by the file of the k-th SOURCES entry, for every content of
\* merged_samples.
C10_OneSamplePerSourceInOrder ==
    (pc = "written" /\ mode = "caller" /\ merged_event.merged_samples # <<>>) =>
        /\ Len(reordered_samples) = Cardinality(SourceSet)
        /\ Len(reordered_samples) = Len(ordered_sources)
        /\ \A k \in 1..Len(reordered_samples) : reordered_samples[k].origin = ordered_sources[k]
        /\ sample_part = Join([k \in 1..Len(reordered_samples) |->
                                  StripMissingTail(reordered_samples[k].data)], "\t")


\* merged_samples holds exactly one sample record for every source of the record
OneSamplePerSource ==
    \A f \in SourceSet :
        Cardinality({k \in 1..Len(merged_event.merged_samples) : merged_event.merged_samples[k].origin = f}) = 1

\* the text of the sample record that input file f contributed
SampleTextOf(f) ==
    StripMissingTail((CHOOSE sm \in Range(merged_event.merged_samples) : sm.origin = f).data)

\* 0/0 followed by '.' fields, as many colon-separated fields as FORMAT
MissingGenotype ==
    <<"0", "/", "0">> \o Flatten([k \in 1..(Len(Split(FormatText, ":")) - 1) |-> <<":", ".">>])

\* C11: in sample mode a written record has one sample column per input file,
\* in input-file order; column k holds the sample data contributed by input
\* file k when file k is a source of the record, and the missing-genotype
\* string otherwise.
C11_SampleModeColumns ==
    (pc = "written" /\ mode = "sample" /\ merged_event.merged_samples # <<>> /\ OneSamplePerSource) =>
        LET columns == Split(sample_part, "\t")
        IN  /\ Len(columns) = Len(all_input_files)
            /\ \A k \in 1..Len(all_input_files) :
                  columns[k] = IF all_input_files[k] \in SourceSet
                               THEN SampleTextOf(all_input_files[k]) ELSE MissingGenotype


StartsWith(t, prefix) == Len(t) >= Len(prefix) /\ SubSeq(t, 1, Len(prefix)) = prefix

\* the INFO entries the record should be written with: the representative's
\* entries in order, SOURCES holding the display names, appended when absent
ExpectedInfoItems ==
    LET info == merged_event.info
        rewritten == [k \in 1..Len(info) |->
                         info[k].key \o <<"=">> \o (IF info[k].key = SOURCES THEN display_sources ELSE info[k].val)]
    IN  IF \E k \in 1..Len(info) : info[k].key = SOURCES THEN rewritten
        ELSE Append(rewritten, SOURCES \o <<"=">> \o display_sources)

\* C12: the INFO text of a written record lists the representative's keys in
\* their order with their values, SOURCES replaced by the ordered display
\* names, and SOURCES appended at the end when the representative has no such
\* key: exactly one SOURCES entry whatever the other keys and values are.
C12_InfoAssembly ==
    pc = "written" =>
        /\ info_field = Join(ExpectedInfoItems, ";")
        /\ Cardinality({k \in 1..Len(Split(info_field, ";")) :
                           StartsWith(Split(info_field, ";")[k], SOURCES \o <<"=">>)}) = 1


(***************************************************************************)
(* Claims about the selection of merged records.                           *)
(***************************************************************************)
AllClusters == Range(group_representatives) \cup Range(tra_events) \cup Range(bnd_events)

\* the records of the stores that are in keep: those of the groups, then TRA, then BND
ClustersWhere(keep) ==
    SelectIdx(group_representatives, {i \in 1..Len(group_representatives) : group_representatives[i] \in keep}, 1)
    \o SelectIdx(tra_events, {i \in 1..Len(tra_events) : tra_events[i] \in keep}, 1)
    \o SelectIdx(bnd_events, {i \in 1..Len(bnd_events) : bnd_events[i] \in keep}, 1)

\* the given set Q and a record's source set S, as sets of file basenames
QueryBasenames == {basename(query_sources[k]) : k \in 1..Len(query_sources)}

BasenamesOf(e) == {basename(f) : f \in Range(e.source_file)}

\* C13: 'union' returns exactly the records whose source set meets Q,
\* 'intersection' exactly those whose source set includes Q (sets of file
\* basenames), the other records first, then TRA, then BND.
C13_UnionIntersection ==
    LET Meets == {e \in AllClusters : BasenamesOf(e) \cap QueryBasenames # {}}
        Includes == {e \in AllClusters : QueryBasenames \subseteq BasenamesOf(e)}
    IN  /\ (pc = "selected" /\ operation = "union") => results = ClustersWhere(Meets)
        /\ (pc = "selected" /\ operation = "intersection") => results = ClustersWhere(Includes)

\* 'intersection' with two files in Q kept a DEL and a BND record and dropped a third record
C13_Witness ==
    /\ pc = "selected" /\ operation = "intersection"
    /\ Cardinality(QueryBasenames) = 2
    /\ Len(results) = 2 /\ results[1].sv_type = "DEL" /\ results[2].sv_type = "BND"
    /\ Len(tra_events) = 1


AllBasenames == {basename(f) : f \in Range(all_input_files)}

\* C14: 'specific' returns exactly the records whose source set holds q and
\* no other input file, and the result is determined by the files given to
\* --specific and the records: it is that selection for whichever given file
\* the code takes as q.
C14_SpecificSelection ==
    (pc = "selected" /\ operation = "specific") =>
        \A q \in QueryBasenames :
            results = ClustersWhere({e \in AllClusters : /\ q \in BasenamesOf(e)
                                                          /\ BasenamesOf(e) \cap (AllBasenames \ {q}) = {}})

SourceSetOf(e) == Range(e.source_file)

\* C15: exact support k returns exactly the records whose source set has k
\* members; the range [lo, hi] exactly those with lo <= |S| <= hi, an absent
\* bound not constraining; other records first, then TRA, then BND.
C15_SupportSelection ==
    LET Exactly == {e \in AllClusters : Cardinality(SourceSetOf(e)) = exact_support.v}
        Within == {e \in AllClusters :
                      /\ (min_support.none \/ min_support.v <= Cardinality(SourceSetOf(e)))
                      /\ (max_support.none \/ Cardinality(SourceSetOf(e)) <= max_support.v)}
    IN  /\ (pc = "selected" /\ operation = "exact_support") => results = ClustersWhere(Exactly)
        /\ (pc = "selected" /\ operation = "support_range") => results = ClustersWhere(Within)
        \* the range [k, k] is exact support k, and [1, none] keeps every record
        /\ (pc = "selected" /\ operation = "support_range" /\ ~min_support.none
              /\ min_support = max_support)
             => results = get_events_by_exact_support(tra_events, bnd_events, group_representatives,
                                                      min_support.v)
        /\ (pc = "selected" /\ operation = "support_range" /\ min_support = Some(1) /\ max_support.none)
             => results = group_representatives \o tra_events \o bnd_events

\* the range [2, 2] kept a record of two sources and dropped records of one and of three
C15_Witness ==
    /\ pc = "selected" /\ operation = "support_range"
    /\ min_support = Some(2) /\ max_support = Some(2)
    /\ Len(results) = 1
    /\ \E e \in AllClusters : Cardinality(SourceSetOf(e)) = 1
    /\ \E e \in AllClusters : Cardinality(SourceSetOf(e)) = 3


(***************************************************************************)
(* Claims about the BND similarity predicate.                              *)
(***************************************************************************)
\* the orientation of a breakend ALT: where the sequence stands, and the bracket
Orientation(alt) == <<alt.prefix, alt.bracket1, alt.bracket2, alt.suffix>>

\* C19: should_merge_bnd(a, b, delta) is true exactly when a and b have the
\* identical orientation pattern, the same source chromosome, the same mate
\* chromosome, and positions and mate positions at most delta apart; records
\* of different patterns are never merged.
C19_ShouldMergeBndCriteria ==
    /\ (pc = "compared" /\ bnd_event1.alt.matched # bnd_event2.alt.matched) =>
          merge_decision = [raised |-> FALSE, value |-> FALSE]
    /\ (pc = "compared" /\ bnd_event1.alt.matched /\ bnd_event2.alt.matched) =>
        /\ ~merge_decision.raised
        /\ merge_decision.value <=>
              /\ Orientation(bnd_event1.alt) = Orientation(bnd_event2.alt)
              /\ bnd_event1.chrom = bnd_event2.chrom
              /\ bnd_event1.alt.target_chr = bnd_event2.alt.target_chr
              /\ bnd_event1.pos - bnd_event2.pos <= delta /\ bnd_event2.pos - bnd_event1.pos <= delta
              /\ bnd_event1.alt.target_pos - bnd_event2.alt.target_pos <= delta
              /\ bnd_event2.alt.target_pos - bnd_event1.alt.target_pos <= delta

\* two records of one pattern, positions and mate positions apart but within delta, merge
C19_Witness ==
    /\ pc = "compared" /\ ~merge_decision.raised /\ merge_decision.value
    /\ bnd_event1.pos # bnd_event2.pos
    /\ bnd_event1.alt.target_pos # bnd_event2.alt.target_pos

\* C20: the predicate is symmetric and reflexive for every BND record and
\* every delta, and it returns a boolean rather than failing for every pair
\* of residual BND records, those whose ALT does not parse included.
C20_SymmetricReflexiveTotal ==
    pc = "compared" =>
        /\ ~merge_decision.raised
        /\ merge_decision = should_merge_bnd(bnd_event2, bnd_event1, delta)
        /\ bnd_event1 = bnd_event2 => merge_decision.value

(***************************************************************************)
(* Claims about the expression selection, checked under SpecExpr.          *)
(***************************************************************************)
\* S as basenames, and the basenames of the input files
ExprSourceSet == {event_sources[i] : i \in 1..Len(event_sources)}

InputBasenames == {basename(all_input_files[i]) : i \in 1..Len(all_input_files)}

ExprTokens == {expression.tokens[i] : i \in 1..Len(expression.tokens)}

\* the truth value of the expression where a basename is true iff it is in S
TruthValue(e, S) ==
    IF e.shape = "name" THEN e.tokens[1] \in S
    ELSE IF e.shape = "not" THEN e.tokens[1] \notin S
    ELSE IF e.shape = "and" THEN e.tokens[1] \in S /\ e.tokens[2] \in S
    ELSE IF e.shape = "or" THEN e.tokens[1] \in S \/ e.tokens[2] \in S
    ELSE (e.tokens[1] \in S /\ e.tokens[2] \in S) /\ e.tokens[3] \notin S

HasOperatorLetters(t) ==
    Contains(t, <<"A", "N", "D">>) \/ Contains(t, <<"O", "R">>) \/ Contains(t, <<"N", "O", "T">>)

\* C16: for an expression over the input files' basenames, evaluate_expression returns
\* the truth value of the expression in which each basename is true iff that file is in
\* the cluster's source set S (so (A AND B) AND NOT C selects {A, B} and neither
\* {A, B, C} nor {A}).
C16_ExpressionTruthValue ==
    (pc = "evaluated" /\ ExprTokens \subseteq InputBasenames) =>
        expr_value = Returns(TruthValue(expression, ExprSourceSet))

\* C17: when the expression holds an identifier that names none of the input files, the
\* evaluation raises no error and gives the truth value in which that identifier is
\* false, for every source set.
C17_UnknownIdentifierIsFalse ==
    (pc = "evaluated" /\ ~(ExprTokens \subseteq InputBasenames)) =>
        /\ ~expr_value.raised
        /\ expr_value.value = TruthValue(expression, ExprSourceSet)

\* C18: operators and basenames are whole words: when a file named in the expression has
\* the letters AND, OR or NOT inside its name, the expression is evaluated without error
\* and the file's token still denotes the membership of that file in S.
C18_WholeWordTokens ==
    (/\ pc = "evaluated"
     /\ ExprTokens \subseteq InputBasenames
     /\ \E t \in ExprTokens : HasOperatorLetters(BasenameText(t))) =>
        (~expr_value.raised /\ (expr_value.value <=> TruthValue(expression, ExprSourceSet)))

(***************************************************************************)
(* Claims about the name map, checked under SpecEmit.                      *)
(***************************************************************************)
\* C21: the name map is injective: the display names of the input files, custom or
\* taken from the file names, are as many as the input files and hold no name twice.
C21_NameMapInjective ==
    pc = "written" =>
        /\ Len(get_all_display_names(all_input_files, custom_names)) = Len(all_input_files)
        /\ Distinct(get_all_display_names(all_input_files, custom_names))

(***************************************************************************)
(* Claims about the cluster store, checked under SpecClu.                  *)
(***************************************************************************)
IntraMatch(a, b) == should_merge(a, b, max_distance)

BndMatch(a, b) == should_merge_bnd(a, b, delta) = Returns(TRUE)

\* the records of a list of groups
GroupMembers(groups) == UNION {Range(groups[g]) : g \in 1..Len(groups)}

\* C22: a record is tested against the first member of each group, in creation order: it
\* joined the first group whose first member matches it and otherwise started a group.
\* So a non-first member matches the first member of its group and of no earlier group,
\* and a first member matches the first member of no earlier group.
C22_FirstMemberFirstMatch ==
    /\ \A k \in IntraKeys : \A g \in 1..Len(event_groups[k]) : \A m \in 1..Len(event_groups[k][g]) :
          /\ merged_events[k][g] = event_groups[k][g][1]
          /\ m > 1 => IntraMatch(event_groups[k][g][1], event_groups[k][g][m])
          /\ \A h \in 1..(g - 1) : ~IntraMatch(event_groups[k][h][1], event_groups[k][g][m])
    /\ \A k \in BndKeys : \A g \in 1..Len(merged_event_groups[k]) :
       \A m \in 1..Len(merged_event_groups[k][g]) :
          /\ m > 1 => BndMatch(merged_event_groups[k][g][1], merged_event_groups[k][g][m])
          /\ \A h \in 1..(g - 1) : ~BndMatch(merged_event_groups[k][h][1], merged_event_groups[k][g][m])

\* a record that passed over the first group and joined the second
C22_Witness ==
    \E k \in IntraKeys : Len(event_groups[k]) >= 2 /\ Len(event_groups[k][2]) >= 2

\* the three records of one category, as (a, b, c): b and c each match a, and do not match
\* each other
IntraHubs(k) ==
    {t \in GroupMembers(event_groups[k]) \X GroupMembers(event_groups[k]) \X GroupMembers(event_groups[k]) :
        /\ Cardinality(GroupMembers(event_groups[k])) = 3
        /\ IntraMatch(t[2], t[1]) /\ IntraMatch(t[3], t[1]) /\ ~IntraMatch(t[2], t[3])}

BndHubs(k) ==
    {t \in Range(bnd_store[k]) \X Range(bnd_store[k]) \X Range(bnd_store[k]) :
        /\ Len(bnd_store[k]) = 3
        /\ BndMatch(t[2], t[1]) /\ BndMatch(t[3], t[1])
        /\ should_merge_bnd(t[2], t[3], delta) = Returns(FALSE)}

\* C23 as stated: such three records, ingested in any order, end in two groups.
C23_TwoGroupsInEveryOrder ==
    /\ \A k \in IntraKeys : IntraHubs(k) # {} => Len(event_groups[k]) = 2
    /\ \A k \in BndKeys : (pc = "merged" /\ BndHubs(k) # {}) => Len(merged_event_groups[k]) = 2

\* C23, amended: such three records end in two groups when the record that both others
\* match was not ingested first, and in one group when it was ingested first.
C23_TwoGroupsUnlessHubFirst ==
    /\ \A k \in IntraKeys : \A t \in IntraHubs(k) :
          Len(event_groups[k]) = IF t[1].seq < t[2].seq /\ t[1].seq < t[3].seq THEN 1 ELSE 2
    /\ \A k \in BndKeys : \A t \in BndHubs(k) :
          pc = "merged" =>
             Len(merged_event_groups[k]) = IF t[1].seq < t[2].seq /\ t[1].seq < t[3].seq THEN 1 ELSE 2

\* the record both others match came second: two groups
C23_Witness ==
    \E k \in IntraKeys : \E t \in IntraHubs(k) :
        t[2].seq < t[1].seq /\ t[1].seq < t[3].seq /\ Len(event_groups[k]) = 2

IsPrefix(s, t) == Len(s) <= Len(t) /\ SubSeq(t, 1, Len(s)) = s

\* groups are appended to and created, never emptied, reordered or rewritten
GroupsOnlyGrow(before, after) ==
    /\ Len(before) <= Len(after)
    /\ \A g \in 1..Len(before) : IsPrefix(before[g], after[g])

\* the sorted chromosome pair of a BND record, its own chromosome twice when its ALT names none
ChromPairOf(m) ==
    IF ~m.alt.matched THEN <<m.chrom, m.chrom>>
    ELSE IF m.chrom = "chr2" /\ m.alt.target_chr = "chr1" THEN <<"chr1", "chr2">>
    ELSE <<m.chrom, m.alt.target_chr>>

IntraSeqs == UNION {{m.seq : m \in GroupMembers(event_groups[k])} : k \in IntraKeys}

StoredBndSeqs == UNION {{m.seq : m \in Range(bnd_store[k])} : k \in BndKeys}

SumLen(groups) == Cardinality({<<g, m>> \in (1..Len(groups)) \X (1..MaxIngest + 1) : m <= Len(groups[g])})

C29_StoreInvariant ==
    /\ IntraSeqs \cup StoredBndSeqs = 1..ingested
    /\ IntraSeqs \cap StoredBndSeqs = {}
    /\ \A k \in IntraKeys :
          /\ SumLen(event_groups[k]) = Cardinality({m.seq : m \in GroupMembers(event_groups[k])})
          /\ \A g \in 1..Len(event_groups[k]) :
                /\ event_groups[k][g] # <<>>
                /\ \A m \in 1..Len(event_groups[k][g]) :
                      /\ <<event_groups[k][g][m].sv_type, event_groups[k][g][m].chrom>> = k
                      /\ m > 1 => event_groups[k][g][1].seq < event_groups[k][g][m].seq
    /\ \A k \in BndKeys :
          /\ pc = "merged" =>
                /\ {m.seq : m \in GroupMembers(merged_event_groups[k])} = {m.seq : m \in Range(bnd_store[k])}
                /\ SumLen(merged_event_groups[k]) = Len(bnd_store[k])
          /\ \A g \in 1..Len(merged_event_groups[k]) :
                /\ merged_event_groups[k][g] # <<>>
                /\ \A m \in 1..Len(merged_event_groups[k][g]) :
                      /\ ChromPairOf(merged_event_groups[k][g][m]) = k
                      /\ m > 1 => merged_event_groups[k][g][1].seq < merged_event_groups[k][g][m].seq

\* C29: every ingested record is a member of exactly one group, no group is empty, a
\* group's first member is the record that created it and never changes, records are
\* only appended to groups, and the members of a group share the group's key.
C29_GroupsPartitionAndOnlyGrow ==
    /\ []C29_StoreInvariant
    /\ [][/\ \A k \in IntraKeys : GroupsOnlyGrow(event_groups[k], event_groups'[k])
          /\ \A k \in BndKeys : GroupsOnlyGrow(merged_event_groups[k], merged_event_groups'[k])]_vars

\* merge_events has grouped two BND records of chr1 and chr2 and a record of another type is stored
C29_Witness ==
    /\ pc = "merged"
    /\ \E g \in 1..Len(merged_event_groups[<<"chr1", "chr2">>]) :
          Len(merged_event_groups[<<"chr1", "chr2">>][g]) >= 2
    /\ \E k \in IntraKeys : event_groups[k] # <<>>

(***************************************************************************)
(* Claims about the quality filter, checked under SpecFilt.                *)
(***************************************************************************)
\* the sum of passed and the seven rejection counters
CounterSum(st) ==
    st.passed + st.filtered_qual + st.filtered_pass + st.filtered_support + st.filtered_depth
    + st.filtered_gq + st.filtered_svlen + st.filtered_nocall

\* C27: after any sequence of filter_event calls total is the number of calls and the
\* sum of passed and the seven rejection counters; each call increments total and
\* exactly one other counter.
C27_StatsConsistent ==
    pc \in {"filter", "filtered", "filter_raised"} =>
        /\ get_stats(stats).counts.total = filter_calls
        /\ get_stats(stats).counts.total = CounterSum(get_stats(stats).counts)

(***************************************************************************)
(* Claims about the passes of the same-chromosome correction, checked      *)
(* under SpecCorr.                                                         *)
(***************************************************************************)
\* the rewrite rules whose test accepts the pair (a, b)
RulesAccepting(a, b) ==
    {r \in {"DEL", "DUP", "INV"} :
        \/ r = "DEL" /\ _check_and_convert_del_pair(a, b) # {}
        \/ r = "DUP" /\ _check_and_convert_dup_pair(a, b) # {}
        \/ r = "INV" /\ _check_and_convert_inv_pair(a, b) # {}}

\* the pairs the three passes consumed, in the order of the passes
ConsumedPairs == del_pairs \o dup_pairs \o inv_pairs

\* C24: the rewrite rules are mutually exclusive: no pair of same-chromosome BND
\* records is accepted by more than one of the DEL, DUP and INV tests, and no
\* record is a member of more than one pair consumed by the three passes.
C24_RewriteRulesExclusive ==
    /\ \A i, j \in 1..Len(events) :
          i # j => Cardinality(RulesAccepting(events[i], events[j])) <= 1
    /\ pc = "done" =>
          \A m, n \in 1..Len(ConsumedPairs) : \A x, y \in {1, 2} :
              (m # n \/ x # y) => ConsumedPairs[m][x].oid # ConsumedPairs[n][y].oid

\* two passes each rewrote a pair of one list, the pairs interleaved in the input
C24_Witness ==
    /\ pc = "done"
    /\ Len(dup_pairs) = 1 /\ Len(inv_pairs) = 1
    /\ RulesAccepting(events[1], events[3]) = {"INV"}
    /\ RulesAccepting(events[2], events[4]) = {"DUP"}

\* the places of the returned list that hold the input record k as a residual BND
ResidualPlaces(k) == {i \in 1..Len(result) : is_BND(result[i]) /\ result[i].oid = k}

\* the places <<m, x>> of the consumed pairs that hold the input record k
ConsumedPlaces(k) ==
    {mx \in (1..Len(ConsumedPairs)) \X {1, 2} : ConsumedPairs[mx[1]][mx[2]].oid = k}

\* the rewritten records of the returned list: the copies, which are new objects
RewrittenPlaces == {i \in 1..Len(result) : result[i].oid = 0}

\* C30: apply_transforms conserves the records: each input record is exactly once
\* a residual BND of the returned list or one of the two members of exactly one
\* rewritten pair, the returned list has n minus the number of rewritten records
\* entries, and a consumed input record is as it was handed in.
C30_RecordsConserved ==
    pc = "done" =>
        /\ \A k \in 1..Len(events) :
              \/ Cardinality(ResidualPlaces(k)) = 1 /\ ConsumedPlaces(k) = {}
              \/ ResidualPlaces(k) = {} /\ Cardinality(ConsumedPlaces(k)) = 1
        /\ Cardinality(RewrittenPlaces) = Len(ConsumedPairs)
        /\ \A i \in RewrittenPlaces : ~is_BND(result[i])
        /\ Len(result) = Len(events) - Cardinality(RewrittenPlaces)
        /\ \A m \in 1..Len(ConsumedPairs) : \A x \in {1, 2} :
              ConsumedPairs[m][x] = events[ConsumedPairs[m][x].oid]

\* a list of four of which one pair is rewritten and two records stay residual
C30_Witness ==
    /\ pc = "done"
    /\ Len(events) = 4 /\ Len(ConsumedPairs) = 1 /\ Len(result) = 3
    /\ Cardinality(RewrittenPlaces) = 1
    /\ \E k \in 1..4 : Cardinality(ResidualPlaces(k)) = 1

(***************************************************************************)
(* Claims about the pairs of the cross-chromosome pairing, checked under   *)
(* SpecMate.                                                               *)
(***************************************************************************)
\* a and b are reciprocal mates within the tolerance t
ReciprocalWithin(a, b, t) ==
    /\ get_alt_chrom_pos(a.alt).ok /\ get_alt_chrom_pos(b.alt).ok
    /\ a.chrom = MateChrom(b) /\ b.chrom = MateChrom(a)
    /\ Abs(a.pos - MatePos(b)) <= t /\ Abs(b.pos - MatePos(a)) <= t

\* C25: every pair (a, b) of find_mate_bnd_events has a before b in the input
\* and is reciprocal within the tolerance, and no record is in two pairs.
C25_MatePairsReciprocal ==
    pc \in {"no_mate", "special", "paired"} =>
        /\ \A k \in 1..Len(mate_bnd_pairs) :
              /\ mate_bnd_pairs[k][1].oid < mate_bnd_pairs[k][2].oid
              /\ ReciprocalWithin(mate_bnd_pairs[k][1], mate_bnd_pairs[k][2], pos_tolerance)
        /\ \A k \in 1..Len(diff_chr_bnd_events) :
              OccursInPairs(mate_bnd_pairs, diff_chr_bnd_events[k].oid) <= 1

\* a pair found through the tolerance, one position off on either side, next
\* to a third record that is a reciprocal mate of one of its members as well
C25_Witness ==
    /\ pc = "no_mate" /\ Len(mate_bnd_pairs) = 1
    /\ mate_bnd_pairs[1][1].pos # MatePos(mate_bnd_pairs[1][2])
    /\ mate_bnd_pairs[1][2].pos # MatePos(mate_bnd_pairs[1][1])
    /\ \E k \in 1..Len(diff_chr_bnd_events) :
          /\ diff_chr_bnd_events[k].oid \notin PairMemberOids(mate_bnd_pairs)
          /\ \E x \in {1, 2} :
                ReciprocalWithin(mate_bnd_pairs[1][x], diff_chr_bnd_events[k], pos_tolerance)

\* a and b run the same way, source and target both within the tolerance t
SameDirectionWithin(a, b, t) ==
    /\ get_alt_chrom_pos(a.alt).ok /\ get_alt_chrom_pos(b.alt).ok
    /\ a.chrom = b.chrom /\ MateChrom(a) = MateChrom(b)
    /\ Abs(a.pos - b.pos) <= t /\ Abs(MatePos(a) - MatePos(b)) <= t

\* C26: after find_special_no_mate_diff_bnd_pair_and_other_single_tra has processed
\* the no_mate list, every special pair runs the same way within the tolerance, no
\* two records of other_single_TRA do, and every record of the no_mate list is in
\* exactly one special pair or exactly once in other_single_TRA.
C26_SameDirectionPairs ==
    pc = "paired" =>
        /\ \A k \in 1..Len(special_no_mate_diff_bnd_pairs) :
              SameDirectionWithin(special_no_mate_diff_bnd_pairs[k][1],
                                  special_no_mate_diff_bnd_pairs[k][2], pos_tolerance)
        /\ \A i, j \in 1..Len(other_single_TRA) :
              i # j => ~SameDirectionWithin(other_single_TRA[i], other_single_TRA[j], pos_tolerance)
        /\ \A k \in 1..Len(no_mate_events) :
              OccursInPairs(special_no_mate_diff_bnd_pairs, no_mate_events[k].oid)
              + OccursInList(other_single_TRA, no_mate_events[k].oid) = 1

\* a special pair found through the tolerance on the target side, and a record
\* of the no_mate list left single beside it
C26_Witness ==
    /\ pc = "paired" /\ Len(special_no_mate_diff_bnd_pairs) = 1 /\ Len(other_single_TRA) = 1
    /\ Len(no_mate_events) = 3
    /\ MatePos(special_no_mate_diff_bnd_pairs[1][1]) # MatePos(special_no_mate_diff_bnd_pairs[1][2])

\* the pairs find_no_mate_events forms on its way (its local mate_bnd_pairs)
NoMateLocalPairs == NoMateLoop(diff_chr_bnd_events, 1, <<>>, <<>>, pos_tolerance).mate_bnd_pairs

\* the record with identity o is a member of a pair whose other member is not r
ConsumedByAnotherPair(pairs, o, r) ==
    \E m \in 1..Len(pairs) : \E x \in {1, 2} : pairs[m][x].oid = o /\ pairs[m][3 - x].oid # r

\* C28: no two records of the list find_no_mate_events returns are reciprocal
\* mates within the tolerance, and every input record that is a reciprocal mate
\* of a returned record was consumed by a pair with another record.
C28_NoMateMaximal ==
    pc \in {"special", "paired"} =>
        /\ \A i, j \in 1..Len(no_mate_events) :
              i # j => ~ReciprocalWithin(no_mate_events[i], no_mate_events[j], pos_tolerance)
        /\ \A i \in 1..Len(no_mate_events) : \A k \in 1..Len(diff_chr_bnd_events) :
              (/\ diff_chr_bnd_events[k].oid # no_mate_events[i].oid
               /\ ReciprocalWithin(no_mate_events[i], diff_chr_bnd_events[k], pos_tolerance))
                  => ConsumedByAnotherPair(NoMateLocalPairs, diff_chr_bnd_events[k].oid,
                                           no_mate_events[i].oid)

\* a record is returned although the input holds a reciprocal mate of it, one
\* position off, which went to another record
C28_Witness ==
    /\ pc = "special" /\ Len(no_mate_events) = 1
    /\ \E k \in 1..Len(diff_chr_bnd_events) :
          /\ diff_chr_bnd_events[k].oid # no_mate_events[1].oid
          /\ ReciprocalWithin(no_mate_events[1], diff_chr_bnd_events[k], pos_tolerance)
          /\ no_mate_events[1].pos # MatePos(diff_chr_bnd_events[k])

====
